---- MODULE Spec2Model ----
(***************************************************************************)
(* Model of the per-guild audio Player of soosa (package player): its      *)
(* public operations, executed by caller goroutines, and the playLoop /    *)
(* streamSong control loop, executed by the goroutines Start launches.     *)
(* Every critical section under p.mu is one step; code outside the lock    *)
(* is split at each access to a shared field or channel.                   *)
(***************************************************************************)
EXTENDS Integers, Sequences, FiniteSets, TLC

\* ---- bounds of the model ------------------------------------------------
MaxOps   == 4      \* public operations invoked in one behaviour
MaxLoops == 2      \* playLoop goroutines alive at the same time
MaxMsgs  == 1      \* UI handles handed to SetLastMessage
MaxPlayed == 50    \* songs a running Player has already played (SpecHistory)
MaxGuilds == 2     \* guilds using the bot (SpecManager)
MaxChunks  == 3    \* chunks of a stream given to ReadWavHeader (SpecWav)
MaxCut     == 9    \* bytes missing from the end of such a stream (SpecWav)
MaxPumpOps == 2    \* operations invoked while the pumps run (SpecPump)
MaxSrc     == 4    \* bytes of the source of a PCMVolume (SpecScaler)
MaxPlayers == 2    \* Players the Manager creates in one behaviour (SpecManager)

\* ---- program constants --------------------------------------------------
HistoryLimit == 50
FullVolume   == 256    \* Player.Volume at 100%: the scaler's factor is Volume/256
MaxDefault   == 512    \* largest DEFAULT_VOLUME the configuration accepts
frameSize    == 3840   \* bytes the pump asks of the scaler in one Read

Threads == {"t1", "t2"}        \* goroutines calling the Player's operations
Loops   == 1..MaxLoops         \* slots for playLoop goroutines
None    == 0                   \* nil song / nil session / empty handle
Song(i) == i                   \* the song passed to the i-th Enqueue call
Guilds  == 1..MaxGuilds        \* guild ids
A       == Song(1)
B       == Song(2)

VARIABLES
  \* fields of Player
  Queue, NowPlaying, IsPlaying, IsPaused, Volume, History, LastMsgID,
  VoiceConn, stopChan, skipChan, volumeChangeChan, done, encoding, stream,
  \* external collaborators: the voice transport and the UI message
  connected, speaking, uiEdits,
  \* caller goroutines: position, last return value of Start
  pc, ret,
  \* playLoop goroutines: position, local `song`, receiver of the deferred
  \* Speaking(false) of streamSong, the case the select of streamSong took
  lpc, lsong, lvc, lwhy,
  \* the scaler of the song's session (its factor in 256ths), the volume
  \* streamSong has just read, the paused flag of the song's stream
  pcmVolume, lcur, spaused,
  \* "no", or the unrecovered panic the process died of
  panicked,
  \* history variables (not program state)
  nOps, lastOp, lastArg, nEnq, nMsgs, deqLog, played, lserial, skipFor,
  prevPending, stopMsg, stopQuiet,
  \* what the callers hold: the slice GetQueue returned to each of them, the
  \* stream Pause or Resume has read from p.stream
  qsnap, sref,
  \* Manager: the registry (guild -> Player, None when absent), the holder of
  \* m.mu, the number of Players created so far
  players, mmu, nPlayers,
  \* Manager's callers: guild and Player of the Remove in progress, the Player
  \* last returned by GetPlayer / GetOrCreatePlayer
  mloc, mret,
  \* the goroutine Shutdown started for each Player's Stop
  gstop,
  \* history variable: per guild, the Players GetOrCreatePlayer has returned
  \* since the last Remove of the guild
  handed,
  \* the holder of p.mu while a critical section is blocked in a call:
  \* "free", a caller, or "loop"
  mu,
  \* ReadWavHeader: the bytes of the reader r, the number of them consumed,
  \* the position in the function, the local h (with foundFmt), what was
  \* returned (<<>> not yet, <<err>> an error and no header, <<"nil", h>> a
  \* header); wavIn is the list of chunks the bytes were built from
  wavR, wavPos, wavPc, wavH, wavRet, wavIn,
  \* PCMVolume: the bytes of its source r, the number of them read, the
  \* fields leftover and volume (in 256ths), the bytes its Read calls have
  \* delivered so far, the <<n, err>> of the last Read call
  pcmR, pcmPos, leftover, volume, pcmOut, pcmRet,
  \* the pump goroutine: "off", "none" (the scaler is read by a caller
  \* instead), "run" or "done"; the bytes it has passed to pipeWriter.Write
  pumpPc, piped,
  \* the pump goroutines of the Player's songs, by the serial of the song:
  \* position ("new" not yet run, "read" in pcmScaler.Read, "write" in
  \* pipeWriter.Write, "done"), bytes read and not yet taken from the pipe,
  \* the error Read returned with them, whether they were scaled by the
  \* factor of NewPCMVolume while p.Volume was another one, and whether the
  \* read side of the pipe is open
  pump

playerVars == <<Queue, NowPlaying, IsPlaying, IsPaused, Volume, History,
                LastMsgID, VoiceConn, stopChan, skipChan, volumeChangeChan,
                done, encoding, stream>>
envVars    == <<connected, speaking, uiEdits>>
procVars   == <<pc, ret, lpc, lsong, lvc, lwhy, pcmVolume, lcur, spaused,
                panicked>>
ghostVars  == <<nOps, lastOp, lastArg, nEnq, nMsgs, deqLog, played, lserial,
                skipFor, prevPending, stopMsg, stopQuiet>>
mgrVars    == <<players, mmu, nPlayers, mloc, mret, gstop, handed>>
streamVars == <<wavR, wavPos, wavPc, wavH, wavRet, wavIn,
                pcmR, pcmPos, leftover, volume, pcmOut, pcmRet, pumpPc, piped,
                pump>>
otherVars  == <<qsnap, sref, mgrVars, mu, streamVars>>
vars       == <<playerVars, envVars, procVars, ghostVars, otherVars>>

StartPCs == {"start_join", "start_setvc", "start_go"}
StopPCs  == {"stop_signal", "stop_close", "stop_wait", "stop_vc", "stop_disc",
             "stop_vcnil", "stop_final"}
\* positions of playLoop at which its local `song` is the song being played
SongPCs  == {"set_np", "fetch", "header", "encode", "speak", "init_read",
             "init_set", "mkstream", "wait", "vol_read", "vol_set", "cleanup",
             "unspeak", "deferred", "hist", "reset"}

Alive     == panicked = "no"
LiveLoops == {l \in Loops : lpc[l] # "off"}
enqLog    == [i \in 1..nEnq |-> Song(i)]
IsPrefix(s, t) == Len(s) <= Len(t) /\ \A i \in 1..Len(s) : s[i] = t[i]
Front(s)  == SubSeq(s, 1, Len(s) - 1)

\* config.Load, the DEFAULT_VOLUME setting: <<>> stands for a variable that
\* is unset or not a number, <<n>> for one that Atoi parses to n.
Load(volStr) ==
  IF volStr # <<>> /\ volStr[1] >= 0 /\ volStr[1] <= MaxDefault
    THEN volStr[1]
    ELSE FullVolume

\* The DEFAULT_VOLUME settings tried.
EnvVolumes == {<<>>, <<-1>>, <<0>>, <<300>>, <<MaxDefault + 1>>}

\* WavHeader{}: the zero header, with the local foundFmt.
WavHeader ==
  [foundFmt |-> FALSE, AudioFormat |-> 0, NumChannels |-> 0, SampleRate |-> 0,
   ByteRate |-> 0, BlockAlign |-> 0, BitsPerSample |-> 0]

\* What surrounds a Player when the bot starts: no caller holds anything, no
\* stream is open.
OtherInit ==
  /\ qsnap = [t \in Threads |-> [buf |-> "none", elems |-> <<>>]]
  /\ sref = [t \in Threads |-> <<None, 0>>]
  /\ players = [g \in Guilds |-> None] /\ mmu = "free" /\ nPlayers = 0
  /\ mloc = [t \in Threads |-> <<None, None>>]
  /\ mret = [t \in Threads |-> None]
  /\ gstop = [p \in 1..MaxPlayers |-> "none"]
  /\ handed = [g \in Guilds |-> <<>>]
  /\ mu = "free"
  /\ wavR = <<>> /\ wavPos = 0 /\ wavPc = "off" /\ wavH = WavHeader
  /\ wavRet = <<>>
  /\ wavIn = [riff |-> "", wave |-> "", chunks |-> <<>>, cut |-> 0]
  /\ pcmR = <<>> /\ pcmPos = 0 /\ leftover = <<>> /\ volume = FullVolume
  /\ pcmOut = <<>> /\ pcmRet = <<0, "nil">> /\ pumpPc = "off" /\ piped = <<>>
  /\ pump = <<>>

\* NewPlayer: empty queue and history, open channels, no voice connection,
\* the volume of the configuration.
NewPlayer(cfg) ==
  /\ OtherInit
  /\ Queue = <<>> /\ NowPlaying = None /\ IsPlaying = FALSE
  /\ IsPaused = FALSE /\ Volume = cfg /\ History = <<>> /\ LastMsgID = None
  /\ VoiceConn = "nil" /\ stopChan = "open" /\ skipChan = "open"
  /\ volumeChangeChan = 0 /\ done = "open" /\ encoding = None /\ stream = None
  /\ connected = FALSE /\ speaking = FALSE /\ uiEdits = <<>>
  /\ pc = [t \in Threads |-> "idle"] /\ ret = [t \in Threads |-> "none"]
  /\ lpc = [l \in Loops |-> "off"] /\ lsong = [l \in Loops |-> None]
  /\ lvc = [l \in Loops |-> "nil"] /\ lwhy = [l \in Loops |-> "none"]
  /\ pcmVolume = [l \in Loops |-> 0] /\ lcur = [l \in Loops |-> 0]
  /\ spaused = [l \in Loops |-> FALSE]
  /\ panicked = "no"
  /\ nOps = 0 /\ lastOp = "none" /\ lastArg = 0 /\ nEnq = 0 /\ nMsgs = 0
  /\ deqLog = <<>> /\ played = <<>>
  /\ lserial = [l \in Loops |-> 0] /\ skipFor = {} /\ prevPending = None
  /\ stopMsg = [t \in Threads |-> None]
  /\ stopQuiet = [t \in Threads |-> TRUE]

\* The Player of a bot whose configuration leaves DEFAULT_VOLUME unset.
Init == NewPlayer(Load(<<>>))

\* A caller goroutine begins a new public operation.  The callers are
\* interchangeable, so when both are free the call is given to "t1".
InvokeWith(t, op, arg) ==
  /\ Alive /\ pc[t] = "idle" /\ nOps < MaxOps
  /\ t = "t2" => pc["t1"] # "idle"
  /\ nOps' = nOps + 1
  /\ lastOp' = op
  /\ lastArg' = arg

\* A call without an integer argument.
Invoke(t, op) == InvokeWith(t, op, 0)

\* An Enqueue or a step of Start runs while some Stop call is in progress.
Disturb == [u \in Threads |-> IF pc[u] \in StopPCs THEN FALSE ELSE stopQuiet[u]]

----------------------------------------------------------------------------
\* SetLastMessage: records the UI handle (a fresh message each call).
SetLastMessage(t) ==
  /\ Invoke(t, "SetLastMessage") /\ nMsgs < MaxMsgs
  /\ nMsgs' = nMsgs + 1
  /\ LastMsgID' = nMsgs + 1
  /\ UNCHANGED <<Queue, NowPlaying, IsPlaying, IsPaused, Volume, History,
                 VoiceConn, stopChan, skipChan, volumeChangeChan, done,
                 encoding, stream, envVars, procVars,
                 nEnq, deqLog, played, lserial, skipFor, prevPending, stopMsg, stopQuiet>>
  /\ UNCHANGED otherVars

\* Mutant of Enqueue: the song is put at the head of the queue.
EnqueueAtHead(t) ==
  /\ Invoke(t, "Enqueue")
  /\ Queue' = <<Song(nEnq + 1)>> \o Queue
  /\ nEnq' = nEnq + 1
  /\ stopQuiet' = Disturb
  /\ UNCHANGED <<NowPlaying, IsPlaying, IsPaused, Volume, History, LastMsgID,
                 VoiceConn, stopChan, skipChan, volumeChangeChan, done,
                 encoding, stream, envVars, procVars,
                 nMsgs, deqLog, played, lserial, skipFor, prevPending, stopMsg>>
  /\ UNCHANGED otherVars

\* Enqueue: appends the song to the tail of the queue.
Enqueue(t) ==
  /\ Invoke(t, "Enqueue")
  /\ Queue' = Append(Queue, Song(nEnq + 1))
  /\ nEnq' = nEnq + 1
  /\ stopQuiet' = Disturb
  /\ UNCHANGED <<NowPlaying, IsPlaying, IsPaused, Volume, History, LastMsgID,
                 VoiceConn, stopChan, skipChan, volumeChangeChan, done,
                 encoding, stream, envVars, procVars,
                 nMsgs, deqLog, played, lserial, skipFor, prevPending, stopMsg>>
  /\ UNCHANGED otherVars

\* Mutant of GetQueue: p.Queue itself is returned, not a copy.
GetQueueAlias(t) ==
  /\ Invoke(t, "GetQueue")
  /\ qsnap' = [qsnap EXCEPT ![t] = [buf |-> "queue", elems |-> Queue]]
  /\ UNCHANGED <<sref, mgrVars, mu, streamVars>>
  /\ UNCHANGED <<playerVars, envVars, procVars,
                 nEnq, nMsgs, deqLog, played, lserial, skipFor, prevPending,
                 stopMsg, stopQuiet>>

\* GetQueue: a new array of len(p.Queue) elements is made, the queue copied
\* into it under the lock, and the new slice returned.
GetQueue(t) ==
  /\ Invoke(t, "GetQueue")
  /\ qsnap' = [qsnap EXCEPT ![t] = [buf |-> "copy", elems |-> Queue]]
  /\ UNCHANGED <<sref, mgrVars, mu, streamVars>>
  /\ UNCHANGED <<playerVars, envVars, procVars,
                 nEnq, nMsgs, deqLog, played, lserial, skipFor, prevPending,
                 stopMsg, stopQuiet>>

\* The caller of GetQueue overwrites the first element of the slice it was
\* given; the write lands in the array the slice points into.
Scribble(t) ==
  /\ Alive /\ pc[t] = "idle"
  /\ qsnap[t].elems # <<>> /\ qsnap[t].elems[1] # None
  /\ qsnap' = [qsnap EXCEPT ![t].elems[1] = None]
  /\ UNCHANGED <<sref, mgrVars, mu, streamVars>>
  /\ IF qsnap[t].buf = "queue" /\ Queue # <<>>
       THEN Queue' = [Queue EXCEPT ![1] = None]
       ELSE UNCHANGED Queue
  /\ UNCHANGED <<NowPlaying, IsPlaying, IsPaused, Volume, History, LastMsgID,
                 VoiceConn, stopChan, skipChan, volumeChangeChan, done,
                 encoding, stream, envVars, procVars, ghostVars>>

----------------------------------------------------------------------------
\* Start, first critical section: already playing -> return nil, otherwise
\* claim the playing flag.
StartCheck(t) ==
  /\ Invoke(t, "Start")
  /\ IF IsPlaying
       THEN /\ ret' = [ret EXCEPT ![t] = "ok"]
            /\ UNCHANGED <<IsPlaying, pc>>
       ELSE /\ IsPlaying' = TRUE
            /\ pc' = [pc EXCEPT ![t] = "start_join"]
            /\ ret' = [ret EXCEPT ![t] = "none"]
  /\ stopQuiet' = Disturb
  /\ UNCHANGED <<Queue, NowPlaying, IsPaused, Volume, History, LastMsgID,
                 VoiceConn, stopChan, skipChan, volumeChangeChan, done,
                 encoding, stream, envVars, lpc, lsong, lvc, lwhy, pcmVolume, lcur, spaused, panicked,
                 nEnq, nMsgs, deqLog, played, lserial, skipFor, prevPending, stopMsg>>
  /\ UNCHANGED otherVars

\* Mutant of StartJoin: the playing flag is not reverted when the join fails.
StartJoinNoRevert(t, ok) ==
  /\ Alive /\ pc[t] = "start_join"
  /\ IF ok
       THEN /\ connected' = TRUE
            /\ pc' = [pc EXCEPT ![t] = "start_setvc"]
            /\ UNCHANGED <<IsPlaying, ret>>
       ELSE /\ pc' = [pc EXCEPT ![t] = "idle"]
            /\ ret' = [ret EXCEPT ![t] = "error"]
            /\ UNCHANGED <<connected, IsPlaying>>
  /\ stopQuiet' = Disturb
  /\ UNCHANGED <<Queue, NowPlaying, IsPaused, Volume, History, LastMsgID,
                 VoiceConn, stopChan, skipChan, volumeChangeChan, done,
                 encoding, stream, speaking, uiEdits, lpc, lsong, lvc, lwhy, pcmVolume, lcur, spaused, panicked,
                 nOps, lastOp, lastArg, nEnq, nMsgs, deqLog, played, lserial, skipFor, prevPending, stopMsg>>
  /\ UNCHANGED otherVars

\* Start, ChannelVoiceJoin: on failure revert the flag and return the error.
StartJoin(t, ok) ==
  /\ Alive /\ pc[t] = "start_join"
  /\ IF ok
       THEN /\ connected' = TRUE
            /\ pc' = [pc EXCEPT ![t] = "start_setvc"]
            /\ UNCHANGED <<IsPlaying, ret>>
       ELSE /\ IsPlaying' = FALSE
            /\ pc' = [pc EXCEPT ![t] = "idle"]
            /\ ret' = [ret EXCEPT ![t] = "error"]
            /\ UNCHANGED connected
  /\ stopQuiet' = Disturb
  /\ UNCHANGED <<Queue, NowPlaying, IsPaused, Volume, History, LastMsgID,
                 VoiceConn, stopChan, skipChan, volumeChangeChan, done,
                 encoding, stream, speaking, uiEdits, lpc, lsong, lvc, lwhy, pcmVolume, lcur, spaused, panicked,
                 nOps, lastOp, lastArg, nEnq, nMsgs, deqLog, played, lserial, skipFor, prevPending, stopMsg>>
  /\ UNCHANGED otherVars

\* Start, p.VoiceConn = vc (written without the lock).
StartSetVC(t) ==
  /\ Alive /\ pc[t] = "start_setvc"
  /\ VoiceConn' = "vc"
  /\ pc' = [pc EXCEPT ![t] = "start_go"]
  /\ stopQuiet' = Disturb
  /\ UNCHANGED <<Queue, NowPlaying, IsPlaying, IsPaused, Volume, History,
                 LastMsgID, stopChan, skipChan, volumeChangeChan, done,
                 encoding, stream, envVars, ret, lpc, lsong, lvc, lwhy, pcmVolume, lcur, spaused, panicked,
                 nOps, lastOp, lastArg, nEnq, nMsgs, deqLog, played, lserial, skipFor, prevPending, stopMsg>>
  /\ UNCHANGED otherVars

\* Start, go p.playLoop(); return nil.
StartGo(t) ==
  /\ Alive /\ pc[t] = "start_go"
  /\ \E l \in Loops :
       /\ lpc[l] = "off"
       /\ \A k \in Loops : k < l => lpc[k] # "off"
       /\ lpc' = [lpc EXCEPT ![l] = "top"]
  /\ pc' = [pc EXCEPT ![t] = "idle"]
  /\ ret' = [ret EXCEPT ![t] = "ok"]
  /\ stopQuiet' = Disturb
  /\ UNCHANGED <<playerVars, envVars, lsong, lvc, lwhy, pcmVolume, lcur, spaused, panicked,
                 nOps, lastOp, lastArg, nEnq, nMsgs, deqLog, played, lserial, skipFor, prevPending, stopMsg>>
  /\ UNCHANGED otherVars

----------------------------------------------------------------------------
\* Stop, first critical section: p.Queue = nil.
StopClear(t) ==
  /\ Invoke(t, "Stop")
  /\ Queue' = <<>>
  /\ pc' = [pc EXCEPT ![t] = "stop_signal"]
  /\ stopMsg' = [stopMsg EXCEPT ![t] = LastMsgID]
  /\ stopQuiet' = [stopQuiet EXCEPT ![t] = \A u \in Threads : pc[u] \notin StartPCs]
  /\ prevPending' = None
  /\ UNCHANGED <<NowPlaying, IsPlaying, IsPaused, Volume, History, LastMsgID,
                 VoiceConn, stopChan, skipChan, volumeChangeChan, done,
                 encoding, stream, envVars, ret, lpc, lsong, lvc, lwhy, pcmVolume, lcur, spaused, panicked,
                 nEnq, nMsgs, deqLog, played, lserial, skipFor>>
  /\ UNCHANGED otherVars

\* Stop, the select on stopChan: already closed, or the default branch.
StopSignal(t) ==
  /\ Alive /\ pc[t] = "stop_signal"
  /\ pc' = [pc EXCEPT ![t] = IF stopChan = "closed" THEN "stop_wait" ELSE "stop_close"]
  /\ UNCHANGED <<playerVars, envVars, ret, lpc, lsong, lvc, lwhy, pcmVolume, lcur, spaused, panicked, ghostVars>>
  /\ UNCHANGED otherVars

\* Stop, close(p.stopChan) in the default branch; closing a closed channel
\* panics.
StopClose(t) ==
  /\ Alive /\ pc[t] = "stop_close"
  /\ IF stopChan = "closed"
       THEN /\ panicked' = "close of closed stopChan"
            /\ UNCHANGED <<stopChan, pc>>
       ELSE /\ stopChan' = "closed"
            /\ pc' = [pc EXCEPT ![t] = "stop_wait"]
            /\ UNCHANGED panicked
  /\ UNCHANGED <<Queue, NowPlaying, IsPlaying, IsPaused, Volume, History,
                 LastMsgID, VoiceConn, skipChan, volumeChangeChan, done,
                 encoding, stream, envVars, ret, lpc, lsong, lvc, lwhy, pcmVolume, lcur, spaused, ghostVars>>
  /\ UNCHANGED otherVars

\* Stop, <-p.done: blocks until the channel is closed.
StopWait(t) ==
  /\ Alive /\ pc[t] = "stop_wait"
  /\ done = "closed"
  /\ pc' = [pc EXCEPT ![t] = "stop_vc"]
  /\ UNCHANGED <<playerVars, envVars, ret, lpc, lsong, lvc, lwhy, pcmVolume, lcur, spaused, panicked, ghostVars>>
  /\ UNCHANGED otherVars

\* Stop, if p.VoiceConn != nil (read without the lock).
StopVC(t) ==
  /\ Alive /\ pc[t] = "stop_vc"
  /\ pc' = [pc EXCEPT ![t] = IF VoiceConn = "nil" THEN "stop_final" ELSE "stop_disc"]
  /\ UNCHANGED <<playerVars, envVars, ret, lpc, lsong, lvc, lwhy, pcmVolume, lcur, spaused, panicked, ghostVars>>
  /\ UNCHANGED otherVars

\* Stop, p.VoiceConn.Disconnect(): the field is read again; a nil receiver
\* is dereferenced.
StopDisc(t) ==
  /\ Alive /\ pc[t] = "stop_disc"
  /\ IF VoiceConn = "nil"
       THEN /\ panicked' = "nil VoiceConn"
            /\ UNCHANGED <<connected, pc>>
       ELSE /\ connected' = FALSE
            /\ pc' = [pc EXCEPT ![t] = "stop_vcnil"]
            /\ UNCHANGED panicked
  /\ UNCHANGED <<playerVars, speaking, uiEdits, ret, lpc, lsong, lvc, lwhy, pcmVolume, lcur, spaused, ghostVars>>
  /\ UNCHANGED otherVars

\* Stop, p.VoiceConn = nil.
StopVCNil(t) ==
  /\ Alive /\ pc[t] = "stop_vcnil"
  /\ VoiceConn' = "nil"
  /\ pc' = [pc EXCEPT ![t] = "stop_final"]
  /\ UNCHANGED <<Queue, NowPlaying, IsPlaying, IsPaused, Volume, History,
                 LastMsgID, stopChan, skipChan, volumeChangeChan, done,
                 encoding, stream, envVars, ret, lpc, lsong, lvc, lwhy, pcmVolume, lcur, spaused, panicked,
                 ghostVars>>
  /\ UNCHANGED otherVars

\* Stop, last critical section: reset the flags, edit the stored message to
\* "Stopped." and forget it; return.
StopFinal(t) ==
  /\ Alive /\ pc[t] = "stop_final"
  /\ IsPlaying' = FALSE
  /\ NowPlaying' = None
  /\ IF LastMsgID # None
       THEN /\ uiEdits' = Append(uiEdits, <<LastMsgID, "stopped">>)
            /\ LastMsgID' = None
       ELSE UNCHANGED <<uiEdits, LastMsgID>>
  /\ pc' = [pc EXCEPT ![t] = "idle"]
  /\ stopMsg' = [stopMsg EXCEPT ![t] = None]
  /\ stopQuiet' = [stopQuiet EXCEPT ![t] = TRUE]
  /\ UNCHANGED <<Queue, IsPaused, Volume, History, VoiceConn, stopChan,
                 skipChan, volumeChangeChan, done, encoding, stream,
                 connected, speaking, ret, lpc, lsong, lvc, lwhy, pcmVolume, lcur, spaused, panicked,
                 nOps, lastOp, lastArg, nEnq, nMsgs, deqLog, played, lserial, skipFor, prevPending>>
  /\ UNCHANGED otherVars

----------------------------------------------------------------------------
\* The body of Skip under the lock: close skipChan unless already closed.
\* skipFor remembers which songs were in progress when the signal was raised.
closeSkip ==
  IF skipChan = "closed"
    THEN UNCHANGED <<skipChan, skipFor>>
    ELSE /\ skipChan' = "closed"
         /\ skipFor' = {lserial[l] : l \in {k \in Loops : lpc[k] \in SongPCs}}

\* Skip.
Skip(t) ==
  /\ Invoke(t, "Skip")
  /\ closeSkip
  /\ UNCHANGED <<Queue, NowPlaying, IsPlaying, IsPaused, Volume, History,
                 LastMsgID, VoiceConn, stopChan, volumeChangeChan, done,
                 encoding, stream, envVars, procVars,
                 nEnq, nMsgs, deqLog, played, lserial, prevPending, stopMsg, stopQuiet>>
  /\ UNCHANGED otherVars

\* The queue PlayPrevious builds: the popped song, then the current one.
pushPrevious(prevSong, cur, q) ==
  <<prevSong>> \o (IF cur # None THEN <<cur>> ELSE <<>>) \o q

\* Mutant of PlayPrevious: the empty-History check does not return, the call
\* goes on to its trailing Skip.
PlayPreviousAlwaysSkips(t) ==
  /\ Invoke(t, "PlayPrevious")
  /\ IF Len(History) = 0
       THEN UNCHANGED <<History, Queue, prevPending>>
       ELSE /\ History' = Front(History)
            /\ Queue' = pushPrevious(History[Len(History)], NowPlaying, Queue)
            /\ prevPending' = History[Len(History)]
  /\ pc' = [pc EXCEPT ![t] = "prev_skip"]
  /\ UNCHANGED <<NowPlaying, IsPlaying, IsPaused, Volume, LastMsgID,
                 VoiceConn, stopChan, skipChan, volumeChangeChan, done,
                 encoding, stream, envVars, ret, lpc, lsong, lvc, lwhy, pcmVolume, lcur, spaused, panicked,
                 nEnq, nMsgs, deqLog, played, lserial, skipFor, stopMsg, stopQuiet>>
  /\ UNCHANGED otherVars

\* PlayPrevious, critical section: return on empty History, otherwise pop
\* its tail and push the current and the popped song to the queue's front.
PlayPrevious(t) ==
  /\ Invoke(t, "PlayPrevious")
  /\ IF Len(History) = 0
       THEN UNCHANGED <<History, Queue, pc, prevPending>>
       ELSE /\ History' = Front(History)
            /\ Queue' = pushPrevious(History[Len(History)], NowPlaying, Queue)
            /\ pc' = [pc EXCEPT ![t] = "prev_skip"]
            /\ prevPending' = History[Len(History)]
  /\ UNCHANGED <<NowPlaying, IsPlaying, IsPaused, Volume, LastMsgID,
                 VoiceConn, stopChan, skipChan, volumeChangeChan, done,
                 encoding, stream, envVars, ret, lpc, lsong, lvc, lwhy, pcmVolume, lcur, spaused, panicked,
                 nEnq, nMsgs, deqLog, played, lserial, skipFor, stopMsg, stopQuiet>>
  /\ UNCHANGED otherVars

\* PlayPrevious, the trailing p.Skip().
PrevSkip(t) ==
  /\ Alive /\ pc[t] = "prev_skip"
  /\ closeSkip
  /\ pc' = [pc EXCEPT ![t] = "idle"]
  /\ UNCHANGED <<Queue, NowPlaying, IsPlaying, IsPaused, Volume, History,
                 LastMsgID, VoiceConn, stopChan, volumeChangeChan, done,
                 encoding, stream, envVars, ret, lpc, lsong, lvc, lwhy, pcmVolume, lcur, spaused, panicked,
                 nOps, lastOp, lastArg, nEnq, nMsgs, deqLog, played, lserial, prevPending, stopMsg, stopQuiet>>
  /\ UNCHANGED otherVars

----------------------------------------------------------------------------
\* The levels passed to SetVolume.
Levels == {-5, 0, 128, FullVolume, 1000}

\* Mutant of SetVolumeStore: levels above the maximum are stored as they are.
SetVolumeStoreNoCap(t, level) ==
  /\ InvokeWith(t, "SetVolume", level)
  /\ Volume' = (IF level < 0 THEN 0 ELSE level)
  /\ pc' = [pc EXCEPT ![t] = "vol_notify"]
  /\ UNCHANGED <<Queue, NowPlaying, IsPlaying, IsPaused, History, LastMsgID,
                 VoiceConn, stopChan, skipChan, volumeChangeChan, done,
                 encoding, stream, envVars, ret, lpc, lsong, lvc, lwhy,
                 pcmVolume, lcur, spaused, panicked,
                 nEnq, nMsgs, deqLog, played, lserial, skipFor, prevPending,
                 stopMsg, stopQuiet>>
  /\ UNCHANGED otherVars

\* SetVolume: the level is clamped to 0..256 and stored under the lock.
SetVolumeStore(t, level) ==
  /\ InvokeWith(t, "SetVolume", level)
  /\ Volume' = (IF level < 0 THEN 0 ELSE IF level > FullVolume THEN FullVolume
                ELSE level)
  /\ pc' = [pc EXCEPT ![t] = "vol_notify"]
  /\ UNCHANGED <<Queue, NowPlaying, IsPlaying, IsPaused, History, LastMsgID,
                 VoiceConn, stopChan, skipChan, volumeChangeChan, done,
                 encoding, stream, envVars, ret, lpc, lsong, lvc, lwhy,
                 pcmVolume, lcur, spaused, panicked,
                 nEnq, nMsgs, deqLog, played, lserial, skipFor, prevPending,
                 stopMsg, stopQuiet>>
  /\ UNCHANGED otherVars

\* SetVolume, the non-blocking send on volumeChangeChan (capacity 1): a
\* notification is posted unless one is already pending.
SetVolumeNotify(t) ==
  /\ Alive /\ pc[t] = "vol_notify"
  /\ volumeChangeChan' = 1
  /\ pc' = [pc EXCEPT ![t] = "idle"]
  /\ UNCHANGED <<Queue, NowPlaying, IsPlaying, IsPaused, Volume, History,
                 LastMsgID, VoiceConn, stopChan, skipChan, done, encoding,
                 stream, envVars, ret, lpc, lsong, lvc, lwhy, pcmVolume, lcur,
                 spaused, panicked, ghostVars>>
  /\ UNCHANGED otherVars

----------------------------------------------------------------------------
\* Pause / Resume, first critical section: IsPaused = paused.
SetIsPaused(t, op, paused, next) ==
  /\ Invoke(t, op)
  /\ IsPaused' = paused
  /\ pc' = [pc EXCEPT ![t] = next]
  /\ UNCHANGED <<Queue, NowPlaying, IsPlaying, Volume, History, LastMsgID,
                 VoiceConn, stopChan, skipChan, volumeChangeChan, done,
                 encoding, stream, envVars, ret, lpc, lsong, lvc, lwhy,
                 pcmVolume, lcur, spaused, panicked,
                 nEnq, nMsgs, deqLog, played, lserial, skipFor, prevPending,
                 stopMsg, stopQuiet, otherVars>>

\* Pause / Resume, second critical section: s := p.stream.  The stream of a
\* song is identified by the loop that made it and the serial of the song.
ReadStream(t, at, next) ==
  /\ Alive /\ pc[t] = at
  /\ sref' = [sref EXCEPT ![t] = IF stream = None THEN <<None, 0>>
                                  ELSE <<stream, lserial[stream]>>]
  /\ pc' = [pc EXCEPT ![t] = next]
  /\ UNCHANGED <<playerVars, envVars, ret, lpc, lsong, lvc, lwhy, pcmVolume,
                 lcur, spaused, panicked, ghostVars, qsnap, mgrVars, mu, streamVars>>

\* Pause / Resume: if s != nil, s.SetPaused(paused).  The call reaches the
\* stream it was read from; a stream whose song is over is no longer used.
SetPaused(t, at, paused) ==
  /\ Alive /\ pc[t] = at
  /\ IF sref[t][1] # None /\ lserial[sref[t][1]] = sref[t][2]
       THEN spaused' = [spaused EXCEPT ![sref[t][1]] = paused]
       ELSE UNCHANGED spaused
  /\ sref' = [sref EXCEPT ![t] = <<None, 0>>]
  /\ pc' = [pc EXCEPT ![t] = "idle"]
  /\ UNCHANGED <<playerVars, envVars, ret, lpc, lsong, lvc, lwhy, pcmVolume,
                 lcur, panicked, ghostVars, qsnap, mgrVars, mu, streamVars>>

\* Mutant of Pause: pausing raises the skip signal.
PauseSkips(t) ==
  /\ Invoke(t, "Pause")
  /\ IsPaused' = TRUE
  /\ skipChan' = "closed"
  /\ pc' = [pc EXCEPT ![t] = "pause_read"]
  /\ UNCHANGED <<Queue, NowPlaying, IsPlaying, Volume, History, LastMsgID,
                 VoiceConn, stopChan, volumeChangeChan, done,
                 encoding, stream, envVars, ret, lpc, lsong, lvc, lwhy,
                 pcmVolume, lcur, spaused, panicked,
                 nEnq, nMsgs, deqLog, played, lserial, skipFor, prevPending,
                 stopMsg, stopQuiet, otherVars>>

\* Pause.
Pause(t) == SetIsPaused(t, "Pause", TRUE, "pause_read")

\* Resume.
Resume(t) == SetIsPaused(t, "Resume", FALSE, "resume_read")

----------------------------------------------------------------------------
\* UNCHANGED for a step of playLoop that only moves the goroutine.
LoopOnly == UNCHANGED <<playerVars, envVars, pc, ret, lsong, lvc, lwhy, pcmVolume, lcur, spaused, panicked, ghostVars>>

\* playLoop, head of the for loop: the non-blocking check of stopChan.
LoopTop(l) ==
  /\ Alive /\ lpc[l] = "top"
  /\ lpc' = [lpc EXCEPT ![l] = IF stopChan = "closed" THEN "ret" ELSE "dequeue"]
  /\ LoopOnly
  /\ UNCHANGED otherVars

\* Mutant of dequeue: the song is taken from the tail of the queue.
dequeueFromTail(l) ==
  /\ Alive /\ lpc[l] = "dequeue"
  /\ IF Len(Queue) = 0
       THEN /\ lsong' = [lsong EXCEPT ![l] = None]
            /\ lpc' = [lpc EXCEPT ![l] = "exh_flags"]
            /\ UNCHANGED <<Queue, deqLog, lserial>>
       ELSE /\ lsong' = [lsong EXCEPT ![l] = Queue[Len(Queue)]]
            /\ Queue' = Front(Queue)
            /\ deqLog' = Append(deqLog, Queue[Len(Queue)])
            /\ lserial' = [lserial EXCEPT ![l] = Len(deqLog) + 1]
            /\ lpc' = [lpc EXCEPT ![l] = "set_np"]
  /\ UNCHANGED <<NowPlaying, IsPlaying, IsPaused, Volume, History, LastMsgID,
                 VoiceConn, stopChan, skipChan, volumeChangeChan, done,
                 encoding, stream, envVars, pc, ret, lvc, lwhy, pcmVolume, lcur, spaused, panicked,
                 nOps, lastOp, lastArg, nEnq, nMsgs, played, skipFor, prevPending, stopMsg,
                 stopQuiet>>
  /\ UNCHANGED otherVars

\* dequeue: removes and returns the head of the queue, nil when it is empty.
dequeue(l) ==
  /\ Alive /\ lpc[l] = "dequeue"
  /\ IF Len(Queue) = 0
       THEN /\ lsong' = [lsong EXCEPT ![l] = None]
            /\ lpc' = [lpc EXCEPT ![l] = "exh_flags"]
            /\ UNCHANGED <<Queue, deqLog, lserial>>
       ELSE /\ lsong' = [lsong EXCEPT ![l] = Head(Queue)]
            /\ Queue' = Tail(Queue)
            /\ deqLog' = Append(deqLog, Head(Queue))
            /\ lserial' = [lserial EXCEPT ![l] = Len(deqLog) + 1]
            /\ lpc' = [lpc EXCEPT ![l] = "set_np"]
  /\ UNCHANGED <<NowPlaying, IsPlaying, IsPaused, Volume, History, LastMsgID,
                 VoiceConn, stopChan, skipChan, volumeChangeChan, done,
                 encoding, stream, envVars, pc, ret, lvc, lwhy, pcmVolume, lcur, spaused, panicked,
                 nOps, lastOp, lastArg, nEnq, nMsgs, played, skipFor, prevPending, stopMsg,
                 stopQuiet>>
  /\ UNCHANGED otherVars

\* playLoop, queue empty: IsPlaying = false, NowPlaying = nil under the lock.
ExhFlags(l) ==
  /\ Alive /\ lpc[l] = "exh_flags"
  /\ IsPlaying' = FALSE
  /\ NowPlaying' = None
  /\ lpc' = [lpc EXCEPT ![l] = "exh_vc"]
  /\ UNCHANGED <<Queue, IsPaused, Volume, History, LastMsgID, VoiceConn,
                 stopChan, skipChan, volumeChangeChan, done, encoding, stream,
                 envVars, pc, ret, lsong, lvc, lwhy, pcmVolume, lcur, spaused, panicked, ghostVars>>
  /\ UNCHANGED otherVars

\* Mutant of ExhVC: the transport is left connected.
ExhVCSkipsDisconnect(l) ==
  /\ Alive /\ lpc[l] = "exh_vc"
  /\ lpc' = [lpc EXCEPT ![l] = "exh_ui"]
  /\ LoopOnly
  /\ UNCHANGED otherVars

\* playLoop, queue empty: if p.VoiceConn != nil (read without the lock).
ExhVC(l) ==
  /\ Alive /\ lpc[l] = "exh_vc"
  /\ lpc' = [lpc EXCEPT ![l] = IF VoiceConn = "nil" THEN "exh_ui" ELSE "exh_disc"]
  /\ LoopOnly
  /\ UNCHANGED otherVars

\* playLoop, queue empty: p.VoiceConn.Disconnect().
ExhDisc(l) ==
  /\ Alive /\ lpc[l] = "exh_disc"
  /\ IF VoiceConn = "nil"
       THEN /\ panicked' = "nil VoiceConn"
            /\ UNCHANGED <<connected, lpc>>
       ELSE /\ connected' = FALSE
            /\ lpc' = [lpc EXCEPT ![l] = "exh_vcnil"]
            /\ UNCHANGED panicked
  /\ UNCHANGED <<playerVars, speaking, uiEdits, pc, ret, lsong, lvc, lwhy, pcmVolume, lcur, spaused, ghostVars>>
  /\ UNCHANGED otherVars

\* playLoop, queue empty: p.VoiceConn = nil.
ExhVCNil(l) ==
  /\ Alive /\ lpc[l] = "exh_vcnil"
  /\ VoiceConn' = "nil"
  /\ lpc' = [lpc EXCEPT ![l] = "exh_ui"]
  /\ UNCHANGED <<Queue, NowPlaying, IsPlaying, IsPaused, Volume, History,
                 LastMsgID, stopChan, skipChan, volumeChangeChan, done,
                 encoding, stream, envVars, pc, ret, lsong, lvc, lwhy, pcmVolume, lcur, spaused, panicked,
                 ghostVars>>
  /\ UNCHANGED otherVars

\* playLoop, queue empty: edit the stored message to "Queue ended." and
\* forget it.
ExhUI(l) ==
  /\ Alive /\ lpc[l] = "exh_ui"
  /\ IF LastMsgID # None
       THEN /\ uiEdits' = Append(uiEdits, <<LastMsgID, "queue ended">>)
            /\ LastMsgID' = None
       ELSE UNCHANGED <<uiEdits, LastMsgID>>
  /\ lpc' = [lpc EXCEPT ![l] = "ret"]
  /\ UNCHANGED <<Queue, NowPlaying, IsPlaying, IsPaused, Volume, History,
                 VoiceConn, stopChan, skipChan, volumeChangeChan, done,
                 encoding, stream, connected, speaking, pc, ret, lsong, lvc, lwhy, pcmVolume, lcur, spaused,
                 panicked, ghostVars>>
  /\ UNCHANGED otherVars

\* playLoop returns: the deferred close(p.done); closing a closed channel
\* panics.
LoopRet(l) ==
  /\ Alive /\ lpc[l] = "ret"
  /\ IF done = "closed"
       THEN /\ panicked' = "close of closed done"
            /\ UNCHANGED <<done, lpc>>
       ELSE /\ done' = "closed"
            /\ lpc' = [lpc EXCEPT ![l] = "off"]
            /\ UNCHANGED panicked
  /\ UNCHANGED <<Queue, NowPlaying, IsPlaying, IsPaused, Volume, History,
                 LastMsgID, VoiceConn, stopChan, skipChan, volumeChangeChan,
                 encoding, stream, envVars, pc, ret, lsong, lvc, lwhy, pcmVolume, lcur, spaused, ghostVars>>
  /\ UNCHANGED otherVars

\* playLoop: NowPlaying = song, IsPlaying = true under the lock.
SetNowPlaying(l) ==
  /\ Alive /\ lpc[l] = "set_np"
  /\ NowPlaying' = lsong[l]
  /\ IsPlaying' = TRUE
  /\ lpc' = [lpc EXCEPT ![l] = "fetch"]
  /\ prevPending' = None
  /\ UNCHANGED <<Queue, IsPaused, Volume, History, LastMsgID, VoiceConn,
                 stopChan, skipChan, volumeChangeChan, done, encoding, stream,
                 envVars, pc, ret, lsong, lvc, lwhy, pcmVolume, lcur, spaused, panicked,
                 nOps, lastOp, lastArg, nEnq, nMsgs, deqLog, played, lserial, skipFor, stopMsg, stopQuiet>>
  /\ UNCHANGED otherVars

----------------------------------------------------------------------------
\* streamSong entry: the receiver of the deferred Speaking(false) is
\* evaluated, then the stream is fetched; a failed fetch returns.
Fetch(l, ok) ==
  /\ Alive /\ lpc[l] = "fetch"
  /\ lvc' = [lvc EXCEPT ![l] = VoiceConn]
  /\ lpc' = [lpc EXCEPT ![l] = IF ok THEN "header" ELSE "deferred"]
  /\ UNCHANGED <<playerVars, envVars, pc, ret, lsong, lwhy, pcmVolume, lcur, spaused, panicked, ghostVars>>
  /\ UNCHANGED otherVars

\* PCMVolume.SetVolume: the factor, in 256ths, never negative.
PCMSetVolume(vol) == IF vol < 0 THEN 0 ELSE vol

\* Mutant of Header: a song whose header cannot be parsed is put back at the
\* head of the queue.
HeaderRetries(l, ok) ==
  /\ Alive /\ lpc[l] = "header"
  /\ lpc' = [lpc EXCEPT ![l] = IF ok THEN "encode" ELSE "deferred"]
  /\ pcmVolume' = [pcmVolume EXCEPT ![l] = IF ok THEN FullVolume ELSE @]
  /\ Queue' = IF ok THEN Queue ELSE <<lsong[l]>> \o Queue
  /\ UNCHANGED <<NowPlaying, IsPlaying, IsPaused, Volume, History, LastMsgID,
                 VoiceConn, stopChan, skipChan, volumeChangeChan, done,
                 encoding, stream, envVars, pc, ret, lsong, lvc, lwhy, lcur,
                 spaused, panicked, ghostVars>>
  /\ UNCHANGED otherVars

\* streamSong: ReadWavHeader; a failed parse returns, otherwise NewPCMVolume
\* makes the song's scaler with factor 1.0.
Header(l, ok) ==
  /\ Alive /\ lpc[l] = "header"
  /\ lpc' = [lpc EXCEPT ![l] = IF ok THEN "encode" ELSE "deferred"]
  /\ pcmVolume' = [pcmVolume EXCEPT ![l] = IF ok THEN FullVolume ELSE @]
  /\ UNCHANGED <<playerVars, envVars, pc, ret, lsong, lvc, lwhy, lcur, spaused,
                 panicked, ghostVars>>
  /\ UNCHANGED otherVars

\* streamSong: EncodeMem; on success p.encoding = encodingSession under the
\* lock, on failure return.
Encode(l, ok) ==
  /\ Alive /\ lpc[l] = "encode"
  /\ IF ok
       THEN /\ encoding' = l
            /\ lpc' = [lpc EXCEPT ![l] = "speak"]
       ELSE /\ lpc' = [lpc EXCEPT ![l] = "deferred"]
            /\ UNCHANGED encoding
  /\ UNCHANGED <<Queue, NowPlaying, IsPlaying, IsPaused, Volume, History,
                 LastMsgID, VoiceConn, stopChan, skipChan, volumeChangeChan,
                 done, stream, envVars, pc, ret, lsong, lvc, lwhy, pcmVolume, lcur, spaused, panicked,
                 ghostVars>>
  /\ UNCHANGED otherVars

\* streamSong: p.VoiceConn.Speaking(true).
Speak(l) ==
  /\ Alive /\ lpc[l] = "speak"
  /\ IF VoiceConn = "nil"
       THEN /\ panicked' = "nil VoiceConn"
            /\ UNCHANGED <<speaking, lpc>>
       ELSE /\ speaking' = TRUE
            /\ lpc' = [lpc EXCEPT ![l] = "init_read"]
            /\ UNCHANGED panicked
  /\ UNCHANGED <<playerVars, connected, uiEdits, pc, ret, lsong, lvc, lwhy, pcmVolume, lcur, spaused, ghostVars>>
  /\ UNCHANGED otherVars

\* streamSong, "update volume initially": p.Volume is read under the lock.
InitVolRead(l) ==
  /\ Alive /\ lpc[l] = "init_read"
  /\ lcur' = [lcur EXCEPT ![l] = Volume]
  /\ lpc' = [lpc EXCEPT ![l] = "init_set"]
  /\ UNCHANGED <<playerVars, envVars, pc, ret, lsong, lvc, lwhy, pcmVolume,
                 spaused, panicked, ghostVars>>
  /\ UNCHANGED otherVars

\* streamSong: pcmScaler.SetVolume(currentVol).
InitVolSet(l) ==
  /\ Alive /\ lpc[l] = "init_set"
  /\ pcmVolume' = [pcmVolume EXCEPT ![l] = PCMSetVolume(lcur[l])]
  /\ lpc' = [lpc EXCEPT ![l] = "mkstream"]
  /\ UNCHANGED <<playerVars, envVars, pc, ret, lsong, lvc, lwhy, lcur,
                 spaused, panicked, ghostVars>>
  /\ UNCHANGED otherVars

\* streamSong: NewStream makes the song's stream, not paused; p.stream =
\* stream under the lock.
MkStream(l) ==
  /\ Alive /\ lpc[l] = "mkstream"
  /\ stream' = l
  /\ spaused' = [spaused EXCEPT ![l] = FALSE]
  /\ lpc' = [lpc EXCEPT ![l] = "wait"]
  /\ UNCHANGED <<Queue, NowPlaying, IsPlaying, IsPaused, Volume, History,
                 LastMsgID, VoiceConn, stopChan, skipChan, volumeChangeChan,
                 done, encoding, envVars, pc, ret, lsong, lvc, lwhy, pcmVolume,
                 lcur, panicked, ghostVars>>
  /\ UNCHANGED otherVars

\* streamSong, the select of the control loop: case <-p.stopChan.
SelStop(l) ==
  /\ Alive /\ lpc[l] = "wait"
  /\ stopChan = "closed"
  /\ lpc' = [lpc EXCEPT ![l] = "cleanup"]
  /\ lwhy' = [lwhy EXCEPT ![l] = "stop"]
  /\ UNCHANGED <<playerVars, envVars, pc, ret, lsong, lvc, pcmVolume, lcur,
                 spaused, panicked, ghostVars>>
  /\ UNCHANGED otherVars

\* streamSong, the select of the control loop: case <-p.skipChan.
SelSkip(l) ==
  /\ Alive /\ lpc[l] = "wait"
  /\ skipChan = "closed"
  /\ lpc' = [lpc EXCEPT ![l] = "cleanup"]
  /\ lwhy' = [lwhy EXCEPT ![l] = "skip"]
  /\ UNCHANGED <<playerVars, envVars, pc, ret, lsong, lvc, pcmVolume, lcur,
                 spaused, panicked, ghostVars>>
  /\ UNCHANGED otherVars

\* streamSong, the select of the control loop: case err := <-doneChan (the
\* encoder finished or failed).
SelDone(l) ==
  /\ Alive /\ lpc[l] = "wait"
  /\ lpc' = [lpc EXCEPT ![l] = "cleanup"]
  /\ lwhy' = [lwhy EXCEPT ![l] = "done"]
  /\ UNCHANGED <<playerVars, envVars, pc, ret, lsong, lvc, pcmVolume, lcur,
                 spaused, panicked, ghostVars>>
  /\ UNCHANGED otherVars

\* streamSong, the select of the control loop: case <-p.volumeChangeChan
\* takes the pending notification.
SelVolume(l) ==
  /\ Alive /\ lpc[l] = "wait"
  /\ volumeChangeChan = 1
  /\ volumeChangeChan' = 0
  /\ lpc' = [lpc EXCEPT ![l] = "vol_read"]
  /\ UNCHANGED <<Queue, NowPlaying, IsPlaying, IsPaused, Volume, History,
                 LastMsgID, VoiceConn, stopChan, skipChan, done, encoding,
                 stream, envVars, pc, ret, lsong, lvc, lwhy, pcmVolume, lcur,
                 spaused, panicked, ghostVars>>
  /\ UNCHANGED otherVars

\* Mutant of VolRead: the volume is not read again, the value read when the
\* session started is used.
VolReadStale(l) ==
  /\ Alive /\ lpc[l] = "vol_read"
  /\ lpc' = [lpc EXCEPT ![l] = "vol_set"]
  /\ UNCHANGED <<playerVars, envVars, pc, ret, lsong, lvc, lwhy, pcmVolume,
                 lcur, spaused, panicked, ghostVars>>
  /\ UNCHANGED otherVars

\* streamSong, volume case: p.Volume is read under the lock.
VolRead(l) ==
  /\ Alive /\ lpc[l] = "vol_read"
  /\ lcur' = [lcur EXCEPT ![l] = Volume]
  /\ lpc' = [lpc EXCEPT ![l] = "vol_set"]
  /\ UNCHANGED <<playerVars, envVars, pc, ret, lsong, lvc, lwhy, pcmVolume,
                 spaused, panicked, ghostVars>>
  /\ UNCHANGED otherVars

\* streamSong, volume case: pcmScaler.SetVolume(newVol), back to the select.
VolSet(l) ==
  /\ Alive /\ lpc[l] = "vol_set"
  /\ pcmVolume' = [pcmVolume EXCEPT ![l] = PCMSetVolume(lcur[l])]
  /\ lpc' = [lpc EXCEPT ![l] = "wait"]
  /\ UNCHANGED <<playerVars, envVars, pc, ret, lsong, lvc, lwhy, lcur,
                 spaused, panicked, ghostVars>>
  /\ UNCHANGED otherVars

\* Mutant of cleanupSession: the session references are left in place.
cleanupSessionKeepsRefs(l) ==
  /\ Alive /\ lpc[l] = "cleanup"
  /\ lpc' = [lpc EXCEPT ![l] = "unspeak"]
  /\ UNCHANGED <<playerVars, envVars, pc, ret, lsong, lvc, lwhy, pcmVolume,
                 lcur, spaused, panicked, ghostVars>>
  /\ UNCHANGED otherVars

\* streamSong, cleanupSession: the session references are cleared if they
\* are still this song's.
cleanupSession(l) ==
  /\ Alive /\ lpc[l] = "cleanup"
  /\ IF encoding = l
       THEN encoding' = None /\ stream' = None
       ELSE UNCHANGED <<encoding, stream>>
  /\ lpc' = [lpc EXCEPT ![l] = "unspeak"]
  /\ UNCHANGED <<Queue, NowPlaying, IsPlaying, IsPaused, Volume, History,
                 LastMsgID, VoiceConn, stopChan, skipChan, volumeChangeChan,
                 done, envVars, pc, ret, lsong, lvc, lwhy, pcmVolume, lcur,
                 spaused, panicked, ghostVars>>
  /\ UNCHANGED otherVars

\* streamSong: p.VoiceConn.Speaking(false) after the cleanup.
Unspeak(l) ==
  /\ Alive /\ lpc[l] = "unspeak"
  /\ IF VoiceConn = "nil"
       THEN /\ panicked' = "nil VoiceConn"
            /\ UNCHANGED <<speaking, lpc>>
       ELSE /\ speaking' = FALSE
            /\ lpc' = [lpc EXCEPT ![l] = "deferred"]
            /\ UNCHANGED panicked
  /\ UNCHANGED <<playerVars, connected, uiEdits, pc, ret, lsong, lvc, lwhy, pcmVolume, lcur, spaused, ghostVars>>
  /\ UNCHANGED otherVars

\* streamSong returns: the deferred Speaking(false) on the receiver taken
\* at entry; the song's scaler, the volume read for it and the case the
\* select took go out of scope.
Deferred(l) ==
  /\ Alive /\ lpc[l] = "deferred"
  /\ IF lvc[l] = "nil"
       THEN /\ panicked' = "nil VoiceConn"
            /\ UNCHANGED <<speaking, lpc, pcmVolume, lcur, lwhy>>
       ELSE /\ speaking' = FALSE
            /\ lpc' = [lpc EXCEPT ![l] = "hist"]
            /\ pcmVolume' = [pcmVolume EXCEPT ![l] = 0]
            /\ lcur' = [lcur EXCEPT ![l] = 0]
            /\ lwhy' = [lwhy EXCEPT ![l] = "none"]
            /\ UNCHANGED panicked
  /\ UNCHANGED <<playerVars, connected, uiEdits, pc, ret, lsong, lvc,
                 spaused, ghostVars>>
  /\ UNCHANGED otherVars

\* Mutant of appendHistory: beyond the limit the new song is dropped, not the
\* oldest.
appendHistoryKeepOldest(h, song) ==
  IF Len(h) + 1 > HistoryLimit THEN h ELSE Append(h, song)

\* History after a song finished: appended, the oldest dropped beyond the
\* limit.
appendHistory(h, song) ==
  IF Len(h) + 1 > HistoryLimit THEN Tail(Append(h, song)) ELSE Append(h, song)

\* playLoop, after streamSong: the song goes to History.
Hist(l) ==
  /\ Alive /\ lpc[l] = "hist"
  /\ History' = appendHistory(History, lsong[l])
  /\ played' = Append(played, lsong[l])
  /\ lpc' = [lpc EXCEPT ![l] = "reset"]
  /\ UNCHANGED <<Queue, NowPlaying, IsPlaying, IsPaused, Volume, LastMsgID,
                 VoiceConn, stopChan, skipChan, volumeChangeChan, done,
                 encoding, stream, envVars, pc, ret, lsong, lvc, lwhy,
                 pcmVolume, lcur, spaused, panicked,
                 nOps, lastOp, lastArg, nEnq, nMsgs, deqLog, lserial, skipFor,
                 prevPending, stopMsg, stopQuiet>>
  /\ UNCHANGED otherVars

\* Mutant of Reset: the control loop returns after one song.
ResetReturns(l) ==
  /\ Alive /\ lpc[l] = "reset"
  /\ skipChan' = "open"
  /\ skipFor' = {}
  /\ volumeChangeChan' = 0
  /\ lpc' = [lpc EXCEPT ![l] = "ret"]
  /\ lsong' = [lsong EXCEPT ![l] = None]
  /\ lserial' = [lserial EXCEPT ![l] = 0]
  /\ lvc' = [lvc EXCEPT ![l] = "nil"]
  /\ UNCHANGED <<Queue, NowPlaying, IsPlaying, IsPaused, Volume, History,
                 LastMsgID, VoiceConn, stopChan, done, encoding, stream,
                 envVars, pc, ret, lwhy, pcmVolume, lcur, spaused, panicked,
                 nOps, lastOp, lastArg, nEnq, nMsgs, deqLog, played, prevPending, stopMsg, stopQuiet>>
  /\ UNCHANGED otherVars

\* playLoop, after streamSong: a new skipChan, the volume channel drained.
Reset(l) ==
  /\ Alive /\ lpc[l] = "reset"
  /\ skipChan' = "open"
  /\ skipFor' = {}
  /\ volumeChangeChan' = 0
  /\ lpc' = [lpc EXCEPT ![l] = "top"]
  /\ lsong' = [lsong EXCEPT ![l] = None]
  /\ lserial' = [lserial EXCEPT ![l] = 0]
  /\ lvc' = [lvc EXCEPT ![l] = "nil"]
  /\ UNCHANGED <<Queue, NowPlaying, IsPlaying, IsPaused, Volume, History,
                 LastMsgID, VoiceConn, stopChan, done, encoding, stream,
                 envVars, pc, ret, lwhy, pcmVolume, lcur, spaused, panicked,
                 nOps, lastOp, lastArg, nEnq, nMsgs, deqLog, played, prevPending, stopMsg, stopQuiet>>
  /\ UNCHANGED otherVars

----------------------------------------------------------------------------
\* The steps of a playLoop goroutine other than the cases of the select.
LoopSteps(l) ==
  \/ LoopTop(l) \/ dequeue(l) \/ ExhFlags(l) \/ ExhVC(l) \/ ExhDisc(l)
  \/ ExhVCNil(l) \/ ExhUI(l) \/ LoopRet(l) \/ SetNowPlaying(l)
  \/ Fetch(l, TRUE) \/ Fetch(l, FALSE) \/ Header(l, TRUE) \/ Header(l, FALSE)
  \/ Encode(l, TRUE) \/ Encode(l, FALSE) \/ Speak(l) \/ InitVolRead(l)
  \/ InitVolSet(l) \/ MkStream(l)
  \/ cleanupSession(l) \/ Unspeak(l) \/ Deferred(l) \/ Hist(l) \/ Reset(l)

\* The steps of the playLoop goroutines.
LoopNext ==
  \E l \in Loops : LoopSteps(l) \/ SelStop(l) \/ SelSkip(l) \/ SelDone(l)

\* The steps of Start after its first critical section.
StartNext(t) ==
  \/ StartJoin(t, TRUE) \/ StartJoin(t, FALSE) \/ StartSetVC(t) \/ StartGo(t)

\* The steps of Stop.
StopNext(t) ==
  \/ StopClear(t) \/ StopSignal(t) \/ StopClose(t) \/ StopWait(t)
  \/ StopVC(t) \/ StopDisc(t) \/ StopVCNil(t) \/ StopFinal(t)

\* Every operation, called by any goroutine at any time.
Next ==
  \/ \E t \in Threads :
       \/ SetLastMessage(t) \/ Enqueue(t) \/ StartCheck(t) \/ StartNext(t)
       \/ StopNext(t) \/ Skip(t) \/ PlayPrevious(t) \/ PrevSkip(t)
  \/ LoopNext

Spec == Init /\ [][Next]_vars

\* Every goroutine that can take a step eventually takes one: the callers'
\* operations in progress and the control loops run to their next blocking
\* point.
SpecFair == Init /\ [][Next]_vars /\ WF_vars(Next)

\* The Player when nobody calls Stop or PlayPrevious: the stop case of the
\* select cannot fire.
NextFIFO ==
  \/ \E t \in Threads :
       \/ SetLastMessage(t) \/ Enqueue(t) \/ StartCheck(t) \/ StartNext(t)
       \/ Skip(t)
  \/ \E l \in Loops : LoopSteps(l) \/ SelSkip(l) \/ SelDone(l)

SpecFIFO == Init /\ [][NextFIFO]_vars

\* The scenario Enqueue(A), Enqueue(B), Start(channel) with a voice join that
\* succeeds, on a new Player; once Start has returned the callers may skip
\* and record a UI handle.  Goroutines that can run do run.
StartReturned == \E t \in Threads : pc[t] = "idle" /\ ret[t] = "ok"

NextScenario ==
  \/ \E t \in Threads :
       \/ nOps < 2 /\ Enqueue(t)
       \/ nOps = 2 /\ StartCheck(t)
       \/ StartJoin(t, TRUE) \/ StartSetVC(t) \/ StartGo(t)
       \/ StartReturned /\ (Skip(t) \/ SetLastMessage(t))
  \/ \E l \in Loops : LoopSteps(l) \/ SelSkip(l) \/ SelDone(l)

SpecScenario == Init /\ [][NextScenario]_vars /\ WF_vars(NextScenario)

----------------------------------------------------------------------------
\* The critical sections that call the UI, with the call as a step of its
\* own: p.mu is held from the section's entry until the call has returned.

\* Stop, last critical section up to the ChannelMessageEdit call: the flags
\* are reset; without a stored message the section ends and Stop returns.
StopFinalLock(t) ==
  /\ Alive /\ pc[t] = "stop_final"
  /\ IsPlaying' = FALSE
  /\ NowPlaying' = None
  /\ IF LastMsgID # None
       THEN /\ mu' = t
            /\ pc' = [pc EXCEPT ![t] = "stop_edit"]
            /\ UNCHANGED <<stopMsg, stopQuiet>>
       ELSE /\ pc' = [pc EXCEPT ![t] = "idle"]
            /\ stopMsg' = [stopMsg EXCEPT ![t] = None]
            /\ stopQuiet' = [stopQuiet EXCEPT ![t] = TRUE]
            /\ UNCHANGED mu
  /\ UNCHANGED <<Queue, IsPaused, Volume, History, LastMsgID, VoiceConn,
                 stopChan, skipChan, volumeChangeChan, done, encoding, stream,
                 envVars, ret, lpc, lsong, lvc, lwhy, pcmVolume, lcur, spaused,
                 panicked, nOps, lastOp, lastArg, nEnq, nMsgs, deqLog, played,
                 lserial, skipFor, prevPending, qsnap, sref, mgrVars, streamVars>>

\* Stop: ChannelMessageEdit("Stopped.") returns; the message is forgotten,
\* the lock released, Stop returns.
StopEditReturn(t) ==
  /\ Alive /\ pc[t] = "stop_edit"
  /\ uiEdits' = Append(uiEdits, <<LastMsgID, "stopped">>)
  /\ LastMsgID' = None
  /\ mu' = "free"
  /\ pc' = [pc EXCEPT ![t] = "idle"]
  /\ stopMsg' = [stopMsg EXCEPT ![t] = None]
  /\ stopQuiet' = [stopQuiet EXCEPT ![t] = TRUE]
  /\ UNCHANGED <<Queue, NowPlaying, IsPlaying, IsPaused, Volume, History,
                 VoiceConn, stopChan, skipChan, volumeChangeChan, done,
                 encoding, stream, connected, speaking, ret, lpc, lsong, lvc,
                 lwhy, pcmVolume, lcur, spaused, panicked, nOps, lastOp,
                 lastArg, nEnq, nMsgs, deqLog, played, lserial, skipFor,
                 prevPending, qsnap, sref, mgrVars, streamVars>>

\* playLoop, queue empty, second critical section up to the
\* ChannelMessageEdit call; without a stored message the section ends.
ExhUILock(l) ==
  /\ Alive /\ lpc[l] = "exh_ui"
  /\ IF LastMsgID # None
       THEN mu' = "loop" /\ lpc' = [lpc EXCEPT ![l] = "exh_edit"]
       ELSE lpc' = [lpc EXCEPT ![l] = "ret"] /\ UNCHANGED mu
  /\ UNCHANGED <<playerVars, envVars, pc, ret, lsong, lvc, lwhy, pcmVolume,
                 lcur, spaused, panicked, ghostVars, qsnap, sref, mgrVars,
                 streamVars>>

\* Mutant of ExhEditReturn: the message is not forgotten after the edit.
ExhEditReturnKeepsHandle(l) ==
  /\ Alive /\ lpc[l] = "exh_edit"
  /\ uiEdits' = Append(uiEdits, <<LastMsgID, "queue ended">>)
  /\ mu' = "free"
  /\ lpc' = [lpc EXCEPT ![l] = "ret"]
  /\ UNCHANGED <<playerVars, connected, speaking, pc, ret, lsong, lvc,
                 lwhy, pcmVolume, lcur, spaused, panicked, ghostVars, qsnap,
                 sref, mgrVars, streamVars>>

\* playLoop: ChannelMessageEdit("Queue ended.") returns; the message is
\* forgotten and the lock released.
ExhEditReturn(l) ==
  /\ Alive /\ lpc[l] = "exh_edit"
  /\ uiEdits' = Append(uiEdits, <<LastMsgID, "queue ended">>)
  /\ LastMsgID' = None
  /\ mu' = "free"
  /\ lpc' = [lpc EXCEPT ![l] = "ret"]
  /\ UNCHANGED <<Queue, NowPlaying, IsPlaying, IsPaused, Volume, History,
                 VoiceConn, stopChan, skipChan, volumeChangeChan, done,
                 encoding, stream, connected, speaking, pc, ret, lsong, lvc,
                 lwhy, pcmVolume, lcur, spaused, panicked, ghostVars, qsnap,
                 sref, mgrVars, streamVars>>

\* A Player that is given a UI message, filled, started and stopped: the
\* steps that lock p.mu wait until it is free, the others do not.
NextLocks ==
  \/ /\ mu = "free"
     /\ \/ \E t \in Threads :
             \/ SetLastMessage(t) \/ Enqueue(t) \/ StartCheck(t)
             \/ StopClear(t) \/ StopFinalLock(t)
        \/ \E l \in Loops :
             \/ dequeue(l) \/ ExhFlags(l) \/ ExhUILock(l) \/ SetNowPlaying(l)
             \/ Encode(l, TRUE) \/ InitVolRead(l) \/ MkStream(l)
             \/ cleanupSession(l) \/ Hist(l) \/ Reset(l)
  \/ \E t \in Threads :
       \/ StartJoin(t, TRUE) \/ StartSetVC(t) \/ StartGo(t)
       \/ StopSignal(t) \/ StopClose(t) \/ StopWait(t) \/ StopVC(t)
       \/ StopDisc(t) \/ StopVCNil(t) \/ StopEditReturn(t)
  \/ \E l \in Loops :
       \/ LoopTop(l) \/ ExhVC(l) \/ ExhDisc(l) \/ ExhVCNil(l)
       \/ ExhEditReturn(l) \/ LoopRet(l) \/ Fetch(l, TRUE) \/ Fetch(l, FALSE)
       \/ Header(l, TRUE) \/ Header(l, FALSE) \/ Encode(l, FALSE) \/ Speak(l)
       \/ InitVolSet(l) \/ SelStop(l) \/ SelDone(l) \/ Unspeak(l)
       \/ Deferred(l)

SpecLocks == Init /\ [][NextLocks]_vars

----------------------------------------------------------------------------
\* The Manager (registry of Players).  Its critical sections under m.mu make
\* no blocking call, so each is one step taken when the lock is free.  A
\* Player is known to the Manager by its identity only; its Stop returns when
\* its control loop has exited, which the Manager cannot influence.

\* UNCHANGED for a step of the Manager: the fields of the Players and the
\* control loops are not touched.
ManagerOnly ==
  UNCHANGED <<playerVars, envVars, ret, lpc, lsong, lvc, lwhy, pcmVolume, lcur,
              spaused, panicked, nEnq, nMsgs, deqLog, played, lserial, skipFor,
              prevPending, stopMsg, stopQuiet, qsnap, sref, mu,
              streamVars>>

\* GetPlayer: the registry entry of the guild, nil when there is none.
GetPlayer(t, g) ==
  /\ InvokeWith(t, "GetPlayer", g) /\ mmu = "free"
  /\ mret' = [mret EXCEPT ![t] = players[g]]
  /\ UNCHANGED <<pc, players, mmu, nPlayers, mloc, gstop, handed>>
  /\ ManagerOnly

\* Mutant of GetOrCreatePlayer: a Player is made and registered even when
\* the guild has one.
GetOrCreatePlayerAlways(t, g) ==
  /\ InvokeWith(t, "GetOrCreatePlayer", g) /\ mmu = "free"
  /\ nPlayers < MaxPlayers
  /\ nPlayers' = nPlayers + 1
  /\ players' = [players EXCEPT ![g] = nPlayers + 1]
  /\ mret' = [mret EXCEPT ![t] = nPlayers + 1]
  /\ handed' = [handed EXCEPT ![g] = Append(@, mret'[t])]
  /\ UNCHANGED <<pc, mmu, mloc, gstop>>
  /\ ManagerOnly

\* GetOrCreatePlayer: the registered Player of the guild, or a new Player
\* that is registered for it.
GetOrCreatePlayer(t, g) ==
  /\ InvokeWith(t, "GetOrCreatePlayer", g) /\ mmu = "free"
  /\ IF players[g] # None
       THEN /\ mret' = [mret EXCEPT ![t] = players[g]]
            /\ UNCHANGED <<players, nPlayers>>
       ELSE /\ nPlayers < MaxPlayers
            /\ nPlayers' = nPlayers + 1
            /\ players' = [players EXCEPT ![g] = nPlayers + 1]
            /\ mret' = [mret EXCEPT ![t] = nPlayers + 1]
  /\ handed' = [handed EXCEPT ![g] = Append(@, mret'[t])]
  /\ UNCHANGED <<pc, mmu, mloc, gstop>>
  /\ ManagerOnly

\* Mutant of Remove: m.mu is still held when p.Stop() is called.
RemoveHoldingLock(t, g) ==
  /\ InvokeWith(t, "Remove", g) /\ mmu = "free"
  /\ players' = [players EXCEPT ![g] = None]
  /\ handed' = [handed EXCEPT ![g] = <<>>]
  /\ IF players[g] # None
       THEN /\ mloc' = [mloc EXCEPT ![t] = <<g, players[g]>>]
            /\ pc' = [pc EXCEPT ![t] = "rm_stop"]
            /\ mmu' = t
       ELSE UNCHANGED <<mloc, pc, mmu>>
  /\ UNCHANGED <<nPlayers, mret, gstop>>
  /\ ManagerOnly

\* Remove, the critical section: the entry of the guild is looked up and
\* deleted; with a Player found the call goes on to p.Stop().
Remove(t, g) ==
  /\ InvokeWith(t, "Remove", g) /\ mmu = "free"
  /\ players' = [players EXCEPT ![g] = None]
  /\ handed' = [handed EXCEPT ![g] = <<>>]
  /\ IF players[g] # None
       THEN /\ mloc' = [mloc EXCEPT ![t] = <<g, players[g]>>]
            /\ pc' = [pc EXCEPT ![t] = "rm_stop"]
       ELSE UNCHANGED <<mloc, pc>>
  /\ UNCHANGED <<mmu, nPlayers, mret, gstop>>
  /\ ManagerOnly

\* Remove, p.Stop() returns (the Player's control loop has exited).
RemoveReturn(t) ==
  /\ Alive /\ pc[t] = "rm_stop"
  /\ pc' = [pc EXCEPT ![t] = "idle"]
  /\ mloc' = [mloc EXCEPT ![t] = <<None, None>>]
  /\ UNCHANGED <<players, mmu, nPlayers, mret, gstop, handed,
                 nOps, lastOp, lastArg>>
  /\ ManagerOnly

\* Shutdown: under m.mu, `go p.Stop()` for every registered Player; the
\* registry itself is left as it is.
Shutdown(t) ==
  /\ Invoke(t, "Shutdown") /\ mmu = "free"
  /\ gstop' = [p \in 1..MaxPlayers |->
                 IF \E g \in Guilds : players[g] = p THEN "spawned" ELSE gstop[p]]
  /\ UNCHANGED <<pc, players, mmu, nPlayers, mloc, mret, handed>>
  /\ ManagerOnly

\* A goroutine started by Shutdown: its p.Stop() has run and returned.
StopSpawned(p) ==
  /\ Alive /\ gstop[p] = "spawned"
  /\ gstop' = [gstop EXCEPT ![p] = "returned"]
  /\ UNCHANGED <<pc, players, mmu, nPlayers, mloc, mret, handed,
                 nOps, lastOp, lastArg>>
  /\ ManagerOnly

\* The Manager used by two command handlers for the guilds.
NextManager ==
  \/ \E t \in Threads :
       \/ \E g \in Guilds : GetPlayer(t, g) \/ GetOrCreatePlayer(t, g) \/ Remove(t, g)
       \/ RemoveReturn(t) \/ Shutdown(t)
  \/ \E p \in 1..MaxPlayers : StopSpawned(p)

SpecManager == Init /\ [][NextManager]_vars

\* The last n elements of a sequence.
LastN(s, n) == SubSeq(s, Len(s) - n + 1, Len(s))

\* The smaller of two integers.
Min(a, b) == IF a <= b THEN a ELSE b

\* A Player in the middle of a run: k songs were enqueued, Start succeeded,
\* the control loop has played all k and is back at the head of its loop.
\* With k <= HistoryLimit nothing has been evicted from History yet.
Running(k) ==
  /\ OtherInit
  /\ Queue = <<>> /\ NowPlaying = (IF k = 0 THEN None ELSE Song(k))
  /\ IsPlaying = TRUE /\ IsPaused = FALSE /\ Volume = Load(<<>>)
  /\ played = [i \in 1..k |-> Song(i)]
  /\ History = LastN(played, Min(k, HistoryLimit))
  /\ LastMsgID = None
  /\ VoiceConn = "vc" /\ stopChan = "open" /\ skipChan = "open"
  /\ volumeChangeChan = 0 /\ done = "open" /\ encoding = None /\ stream = None
  /\ connected = TRUE /\ speaking = FALSE /\ uiEdits = <<>>
  /\ pc = [t \in Threads |-> "idle"]
  /\ ret = [t \in Threads |-> IF t = "t1" THEN "ok" ELSE "none"]
  /\ lpc = [l \in Loops |-> IF l = 1 THEN "top" ELSE "off"]
  /\ lsong = [l \in Loops |-> None]
  /\ lvc = [l \in Loops |-> "nil"] /\ lwhy = [l \in Loops |-> "none"]
  /\ pcmVolume = [l \in Loops |-> 0] /\ lcur = [l \in Loops |-> 0]
  /\ spaused = [l \in Loops |-> FALSE]
  /\ panicked = "no"
  /\ nOps = 0 /\ lastOp = "none" /\ lastArg = 0 /\ nEnq = k /\ nMsgs = 0
  /\ deqLog = played
  /\ lserial = [l \in Loops |-> 0] /\ skipFor = {} /\ prevPending = None
  /\ stopMsg = [t \in Threads |-> None]
  /\ stopQuiet = [t \in Threads |-> TRUE]

\* The steps of the goroutine of one control loop when the volume changes.
VolumeSteps(l) == LoopSteps(l) \/ SelVolume(l) \/ VolRead(l) \/ VolSet(l)

\* A Player that is started once, with one control loop: songs are enqueued,
\* the volume is set at any time, a song ends when its encoder finishes.
NextVolume ==
  \/ \E t \in Threads :
       \/ Enqueue(t)
       \/ LiveLoops = {} /\ done = "open" /\ StartCheck(t)
       \/ StartJoin(t, TRUE) \/ StartSetVC(t) \/ StartGo(t)
       \/ \E level \in Levels : SetVolumeStore(t, level)
       \/ SetVolumeNotify(t)
  \/ \E l \in Loops : VolumeSteps(l) \/ SelDone(l)

\* The Player is made by a bot with any of the DEFAULT_VOLUME settings.  A
\* goroutine that can take a step does; when the encoder finishes is up to
\* the song.
SpecVolume ==
  /\ \E e \in EnvVolumes : NewPlayer(Load(e))
  /\ [][NextVolume]_vars
  /\ WF_vars(\E l \in Loops : VolumeSteps(l))
  /\ WF_vars(\E t \in Threads : SetVolumeNotify(t))

\* The running Player with one song played: its queue is filled, read,
\* rewound by PlayPrevious and cleared by Stop while the control loop
\* dequeues; the caller also reads the queue and writes to the slice
\* GetQueue gave it.  One caller, concurrent with the control loop; a song
\* ends by a skip or a stop.
NextSnapshot ==
  \/ \E t \in {"t1"} :
       \/ GetQueue(t) \/ Scribble(t) \/ Enqueue(t)
       \/ PlayPrevious(t) \/ PrevSkip(t) \/ StopNext(t)
  \/ \E l \in Loops : LoopSteps(l) \/ SelStop(l) \/ SelSkip(l)

SpecSnapshot == Running(1) /\ [][NextSnapshot]_vars

\* The running Player with one song played: songs are enqueued, skipped and
\* end, while the callers pause and resume.
NextPause ==
  \/ \E t \in Threads :
       \/ Enqueue(t) \/ Skip(t) \/ Pause(t) \/ Resume(t)
       \/ ReadStream(t, "pause_read", "pause_set")
       \/ SetPaused(t, "pause_set", TRUE)
       \/ ReadStream(t, "resume_read", "resume_set")
       \/ SetPaused(t, "resume_set", FALSE)
  \/ \E l \in Loops : LoopSteps(l) \/ SelSkip(l) \/ SelDone(l)

SpecPause == Running(1) /\ [][NextPause]_vars

\* The running Player when songs are enqueued and skipped and nobody calls
\* Stop, Start or PlayPrevious.
NextHistory ==
  \/ \E t \in Threads : Enqueue(t) \/ Skip(t)
  \/ \E l \in Loops : LoopSteps(l) \/ SelSkip(l) \/ SelDone(l)

SpecHistory == (\E k \in 0..MaxPlayed : Running(k)) /\ [][NextHistory]_vars

\* A Player that is started once and never stopped: songs are enqueued and
\* skipped at any time; a song ends by completion, skip or failure.
NextProgress ==
  \/ \E t \in Threads :
       \/ Enqueue(t) \/ Skip(t)
       \/ LiveLoops = {} /\ done = "open" /\ StartCheck(t)
       \/ StartJoin(t, TRUE) \/ StartSetVC(t) \/ StartGo(t)
  \/ \E l \in Loops : LoopSteps(l) \/ SelSkip(l) \/ SelDone(l)

\* The control loop's goroutine is scheduled, and every song's streamSong
\* eventually returns.
SpecProgress ==
  /\ Init /\ [][NextProgress]_vars
  /\ WF_vars(\E l \in Loops : LoopSteps(l) \/ SelSkip(l) \/ SelDone(l))

\* handlePlay, from the song found to the call of Start: with p.IsPlaying
\* set the song is only enqueued; otherwise it is enqueued and Start is
\* called, whose first critical section claims the playing flag.
handlePlay(t) ==
  /\ Invoke(t, "Play")
  /\ Queue' = Append(Queue, Song(nEnq + 1))
  /\ nEnq' = nEnq + 1
  /\ IF IsPlaying
       THEN UNCHANGED <<IsPlaying, pc, ret>>
       ELSE /\ IsPlaying' = TRUE
            /\ pc' = [pc EXCEPT ![t] = "start_join"]
            /\ ret' = [ret EXCEPT ![t] = "none"]
  /\ stopQuiet' = Disturb
  /\ UNCHANGED <<NowPlaying, IsPaused, Volume, History, LastMsgID, VoiceConn,
                 stopChan, skipChan, volumeChangeChan, done, encoding, stream,
                 envVars, lpc, lsong, lvc, lwhy, pcmVolume, lcur, spaused,
                 panicked, nMsgs, deqLog, played, lserial, skipFor,
                 prevPending, stopMsg>>
  /\ UNCHANGED otherVars

\* A Player driven by the play command only: the voice join succeeds, a song
\* ends by completion or failure, nobody stops or skips.
NextPlayCmd ==
  \/ \E t \in Threads :
       handlePlay(t) \/ StartJoin(t, TRUE) \/ StartSetVC(t) \/ StartGo(t)
  \/ \E l \in Loops : LoopSteps(l) \/ SelDone(l)

SpecPlayCmd == Init /\ [][NextPlayCmd]_vars

----------------------------------------------------------------------------
\* The pump goroutine of a song (streamSong's `go func()`), the pipe between
\* it and the encoder, and the encoder's side of the pipe.

\* The pump goroutine of the song of loop l has been launched and the body
\* it reads is open: streamSong is between the `go` statement and its
\* return (a return before the launch leaves the scaler unmade).
Launched(l) ==
  \/ lpc[l] \in {"encode", "speak", "init_read", "init_set", "mkstream",
                 "wait", "vol_read", "vol_set", "cleanup", "unspeak"}
  \/ lpc[l] = "deferred" /\ (lwhy[l] # "none" \/ pcmVolume[l] = FullVolume)

\* The pump goroutine starts to run: buf is made and the loop entered.
PumpStart(l) ==
  /\ Alive /\ Launched(l)
  /\ IF lserial[l] \in DOMAIN pump THEN pump[lserial[l]].at = "new" ELSE TRUE
  /\ pump' = IF lserial[l] \in DOMAIN pump
               THEN [pump EXCEPT ![lserial[l]].at = "read"]
               ELSE pump @@ (lserial[l] :>
                      [at |-> "read", out |-> 0, err |-> "nil", def |-> FALSE,
                       pipe |-> "open"])
  /\ UNCHANGED <<playerVars, envVars, procVars, ghostVars, qsnap, sref,
                 mgrVars, mu, wavR, wavPos, wavPc, wavH, wavRet, wavIn,
                 pcmR, pcmPos, leftover, volume, pcmOut, pcmRet, pumpPc, piped>>

\* Mutant of PumpRead: the next chunk is read while the previous one is
\* still being written.
PumpReadAhead(l, n, e) ==
  /\ Alive /\ Launched(l)
  /\ lserial[l] \in DOMAIN pump /\ pump[lserial[l]].at \in {"read", "write"}
  /\ n > 0 \/ e # "nil"
  /\ pump' = [pump EXCEPT ![lserial[l]] =
       IF n > 0
         THEN [@ EXCEPT !.at = "write", !.out = @ + n, !.err = e,
                        !.def = lpc[l] \in {"encode", "speak", "init_read",
                                            "init_set"}
                                /\ Volume # FullVolume]
         ELSE [at |-> "done", out |-> 0, err |-> "nil", def |-> FALSE,
               pipe |-> "closed"]]
  /\ UNCHANGED <<playerVars, envVars, procVars, ghostVars, qsnap, sref,
                 mgrVars, mu, wavR, wavPos, wavPc, wavH, wavRet, wavIn,
                 pcmR, pcmPos, leftover, volume, pcmOut, pcmRet, pumpPc, piped>>

\* The pump, n, err := pcmScaler.Read(buf): n bytes scaled by the factor the
\* scaler has at this moment (the one of NewPCMVolume until streamSong has
\* called SetVolume); with n > 0 they go to pipeWriter.Write, with n = 0 and
\* an error the loop is left and the deferred pipeWriter.Close() runs.
PumpRead(l, n, e) ==
  /\ Alive /\ Launched(l)
  /\ lserial[l] \in DOMAIN pump /\ pump[lserial[l]].at = "read"
  /\ n > 0 \/ e # "nil"
  /\ pump' = [pump EXCEPT ![lserial[l]] =
       IF n > 0
         THEN [@ EXCEPT !.at = "write", !.out = @ + n, !.err = e,
                        !.def = lpc[l] \in {"encode", "speak", "init_read",
                                            "init_set"}
                                /\ Volume # FullVolume]
         ELSE [at |-> "done", out |-> 0, err |-> "nil", def |-> FALSE,
               pipe |-> "closed"]]
  /\ UNCHANGED <<playerVars, envVars, procVars, ghostVars, qsnap, sref,
                 mgrVars, mu, wavR, wavPos, wavPc, wavH, wavRet, wavIn,
                 pcmR, pcmPos, leftover, volume, pcmOut, pcmRet, pumpPc, piped>>

\* The pump of a song whose streamSong has returned: the body was closed by
\* the deferred resp.Body.Close(), Read returns an error and the loop is
\* left. (A pump that starts to run only then and finds the pipe untouched
\* does the same and is not recorded.)
PumpReadClosed(s) ==
  /\ Alive /\ s \in DOMAIN pump /\ pump[s].at \in {"new", "read"}
  /\ \A l \in Loops : ~(lserial[l] = s /\ Launched(l))
  /\ pump' = [pump EXCEPT ![s] =
       [at |-> "done", out |-> 0, err |-> "nil", def |-> FALSE,
        pipe |-> "closed"]]
  /\ UNCHANGED <<playerVars, envVars, procVars, ghostVars, qsnap, sref,
                 mgrVars, mu, wavR, wavPos, wavPc, wavH, wavRet, wavIn,
                 pcmR, pcmPos, leftover, volume, pcmOut, pcmRet, pumpPc, piped>>

\* The encoder session of the song takes the chunk from its input reader:
\* pipeWriter.Write returns; the pump leaves its loop if Read had returned
\* an error with the chunk, otherwise it reads again.
PipeAccept(l) ==
  /\ Alive
  /\ lpc[l] \in {"speak", "init_read", "init_set", "mkstream", "wait",
                 "vol_read", "vol_set", "cleanup"}
  /\ lserial[l] \in DOMAIN pump
  /\ pump[lserial[l]].at = "write" /\ pump[lserial[l]].pipe = "open"
  /\ pump' = [pump EXCEPT ![lserial[l]] =
       IF @.err = "nil"
         THEN [@ EXCEPT !.at = "read", !.out = 0, !.def = FALSE]
         ELSE [at |-> "done", out |-> 0, err |-> "nil", def |-> FALSE,
               pipe |-> "closed"]]
  /\ UNCHANGED <<playerVars, envVars, procVars, ghostVars, qsnap, sref,
                 mgrVars, mu, wavR, wavPos, wavPc, wavH, wavRet, wavIn,
                 pcmR, pcmPos, leftover, volume, pcmOut, pcmRet, pumpPc, piped>>

\* The pump, pipeWriter.Write on a pipe whose read side is closed: the write
\* fails, the chunk is dropped and the loop is left.
PumpWriteFails(s) ==
  /\ Alive /\ s \in DOMAIN pump
  /\ pump[s].at = "write" /\ pump[s].pipe = "closed"
  /\ pump' = [pump EXCEPT ![s].at = "done"]
  /\ UNCHANGED <<playerVars, envVars, procVars, ghostVars, qsnap, sref,
                 mgrVars, mu, wavR, wavPos, wavPc, wavH, wavRet, wavIn,
                 pcmR, pcmPos, leftover, volume, pcmOut, pcmRet, pumpPc, piped>>

\* cleanupSession, encodingSession.Cleanup(): the encoder is torn down and
\* its input, the read side of the pipe, is closed with it.
SessionCleanup(l) ==
  /\ Alive /\ lpc[l] = "cleanup"
  /\ IF lserial[l] \in DOMAIN pump THEN pump[lserial[l]].pipe = "open"
                                   ELSE TRUE
  /\ pump' = IF lserial[l] \in DOMAIN pump
               THEN [pump EXCEPT ![lserial[l]].pipe = "closed"]
               ELSE pump @@ (lserial[l] :>
                      [at |-> "new", out |-> 0, err |-> "nil", def |-> FALSE,
                       pipe |-> "closed"])
  /\ UNCHANGED <<playerVars, envVars, procVars, ghostVars, qsnap, sref,
                 mgrVars, mu, wavR, wavPos, wavPc, wavH, wavRet, wavIn,
                 pcmR, pcmPos, leftover, volume, pcmOut, pcmRet, pumpPc, piped>>

\* The steps of the pump goroutines and of the encoder's input.
PumpSteps ==
  \/ \E l \in Loops :
       \/ PumpStart(l) \/ PipeAccept(l)
       \/ \E n \in {0, 2, frameSize}, e \in {"nil", "EOF"} : PumpRead(l, n, e)
  \/ \E s \in DOMAIN pump : PumpReadClosed(s) \/ PumpWriteFails(s)

\* The steps of a control loop with the two halves of cleanupSession apart.
PumpLoopSteps(l) ==
  \/ LoopTop(l) \/ dequeue(l) \/ ExhFlags(l) \/ ExhVC(l) \/ ExhDisc(l)
  \/ ExhVCNil(l) \/ ExhUI(l) \/ LoopRet(l) \/ SetNowPlaying(l)
  \/ Fetch(l, TRUE) \/ Fetch(l, FALSE) \/ Header(l, TRUE) \/ Header(l, FALSE)
  \/ Encode(l, TRUE) \/ Encode(l, FALSE) \/ Speak(l) \/ InitVolRead(l)
  \/ InitVolSet(l) \/ MkStream(l) \/ SelDone(l) \/ SelVolume(l)
  \/ VolRead(l) \/ VolSet(l) \/ SessionCleanup(l)
  \/ (/\ lserial[l] \in DOMAIN pump
      /\ pump[lserial[l]].pipe = "closed"
      /\ cleanupSession(l))
  \/ Unspeak(l) \/ Deferred(l) \/ Hist(l) \/ Reset(l)

\* The running Player with one song played: a caller enqueues songs and
\* lowers the volume; each song has its pump.
NextPump ==
  \/ \E t \in {"t1"} :
       \/ /\ nOps < MaxPumpOps
          /\ Enqueue(t) \/ SetVolumeStore(t, FullVolume \div 2)
       \/ SetVolumeNotify(t)
  \/ \E l \in Loops : PumpLoopSteps(l)
  \/ PumpSteps

\* Every goroutine that can take a step eventually takes one.
SpecPump ==
  /\ Running(1) /\ [][NextPump]_vars
  /\ WF_vars(\E l \in Loops : PumpLoopSteps(l))
  /\ WF_vars(PumpSteps)

----------------------------------------------------------------------------
\* ReadWavHeader.

\* The four bytes of a chunk tag.
Tag(s) ==
  CASE s = "RIFF" -> <<82, 73, 70, 70>>
    [] s = "WAVE" -> <<87, 65, 86, 69>>
    [] s = "fmt " -> <<102, 109, 116, 32>>
    [] s = "data" -> <<100, 97, 116, 97>>
    [] s = "LIST" -> <<76, 73, 83, 84>>

\* The k bytes that binary.LittleEndian decodes to n.
LE(n, k) == [i \in 1..k |-> (n \div 256^(i - 1)) % 256]

\* Mutant of Uint: the bytes are taken most significant first.
UintBigEndian(b) ==
  IF Len(b) = 4 THEN 16777216 * b[1] + 65536 * b[2] + 256 * b[3] + b[4]
  ELSE 256 * b[1] + b[2]

\* binary.LittleEndian.Uint16 and Uint32.
Uint(b) ==
  b[1] + 256 * b[2]
    + (IF Len(b) = 4 THEN 65536 * b[3] + 16777216 * b[4] ELSE 0)

\* The bytes of one chunk as a transcoder writes it: tag, declared size,
\* payload (for a fmt chunk the format fields, for a data chunk the first
\* samples), and a padding byte after a payload of odd size.
ChunkBytes(c) ==
  LET fields == LE(c.code, 2) \o LE(c.ch, 2) \o LE(44100, 4) \o LE(176400, 4)
                  \o LE(4, 2) \o LE(16, 2) \o <<0, 0>>
      payload == IF c.tag = "fmt " THEN SubSeq(fields, 1, c.size)
                 ELSE IF c.tag = "data" THEN SubSeq(<<11, 13>>, 1, c.size)
                 ELSE [i \in 1..c.size |-> 7]
  IN Tag(c.tag) \o LE(c.size, 4) \o payload
       \o (IF c.size % 2 = 1 THEN <<0>> ELSE <<>>)

\* The bytes of a list of chunks.
RECURSIVE Container(_)
Container(cs) ==
  IF cs = <<>> THEN <<>> ELSE ChunkBytes(Head(cs)) \o Container(Tail(cs))

\* streamSong's GET returns a body: a 12-byte RIFF header (right or wrong),
\* up to MaxChunks chunks, and possibly an early end.
OpenBody ==
  /\ wavPc = "off"
  /\ \E riff \in {"RIFF", "LIST"}, wave \in {"WAVE", "data"},
        n \in 0..MaxChunks, cut \in 0..MaxCut :
       \E cs \in [1..n ->
                   {[tag |-> "fmt ", size |-> 16, code |-> 1, ch |-> 2],
                    [tag |-> "fmt ", size |-> 17, code |-> 65534, ch |-> 1],
                    [tag |-> "fmt ", size |-> 16, code |-> 3, ch |-> 2],
                    [tag |-> "fmt ", size |-> 15, code |-> 1, ch |-> 2],
                    [tag |-> "LIST", size |-> 1, code |-> 0, ch |-> 0],
                    [tag |-> "LIST", size |-> 2, code |-> 0, ch |-> 0],
                    [tag |-> "data", size |-> 1, code |-> 0, ch |-> 0]}] :
         LET b == Tag(riff) \o LE(4 + Len(Container(cs)), 4) \o Tag(wave)
                    \o Container(cs)
         IN /\ cut <= Len(b)
            /\ wavR' = SubSeq(b, 1, Len(b) - cut)
            /\ wavIn' = [riff |-> riff, wave |-> wave, chunks |-> cs,
                         cut |-> cut]
  /\ wavPc' = "riff"
  /\ wavPos' = 0 /\ wavH' = WavHeader /\ wavRet' = <<>>
  /\ UNCHANGED <<playerVars, envVars, procVars, ghostVars, qsnap, sref,
                 mgrVars, mu, pump, pcmR, pcmPos, leftover, volume, pcmOut, pcmRet,
                 pumpPc, piped>>

\* ReadWavHeader: the 12-byte RIFF header and its two magic words.
ReadRiff ==
  /\ wavPc = "riff"
  /\ IF wavPos + 12 > Len(wavR)
       THEN /\ wavPos' = Len(wavR)
            /\ wavRet' = <<"EOF">> /\ wavPc' = "done"
       ELSE /\ wavPos' = wavPos + 12
            /\ IF SubSeq(wavR, wavPos + 1, wavPos + 4) # Tag("RIFF")
                 THEN wavRet' = <<"missing RIFF">> /\ wavPc' = "done"
                 ELSE IF SubSeq(wavR, wavPos + 9, wavPos + 12) # Tag("WAVE")
                 THEN wavRet' = <<"missing WAVE">> /\ wavPc' = "done"
                 ELSE wavPc' = "chunk" /\ UNCHANGED wavRet
  /\ UNCHANGED <<playerVars, envVars, procVars, ghostVars, qsnap, sref,
                 mgrVars, mu, pump, wavR, wavH, wavIn, pcmR, pcmPos, leftover,
                 volume, pcmOut, pcmRet, pumpPc, piped>>

\* Mutant of ChunkEOF: the end of the stream is not reported.
ChunkEOFRetries ==
  /\ wavPc = "chunk" /\ wavPos + 8 > Len(wavR)
  /\ wavPos' = Len(wavR)
  /\ UNCHANGED <<playerVars, envVars, procVars, ghostVars, qsnap, sref,
                 mgrVars, mu, pump, wavR, wavPc, wavH, wavRet, wavIn, pcmR, pcmPos,
                 leftover, volume, pcmOut, pcmRet, pumpPc, piped>>

\* ReadWavHeader: the stream ends inside the 8-byte header of a chunk.
ChunkEOF ==
  /\ wavPc = "chunk" /\ wavPos + 8 > Len(wavR)
  /\ wavPos' = Len(wavR)
  /\ wavRet' = <<"EOF">> /\ wavPc' = "done"
  /\ UNCHANGED <<playerVars, envVars, procVars, ghostVars, qsnap, sref,
                 mgrVars, mu, pump, wavR, wavH, wavIn, pcmR, pcmPos, leftover,
                 volume, pcmOut, pcmRet, pumpPc, piped>>

\* ReadWavHeader: a fmt chunk; its fields are taken and its padding byte, if
\* any, discarded.
ReadFmt ==
  /\ wavPc = "chunk" /\ wavPos + 8 <= Len(wavR)
  /\ SubSeq(wavR, wavPos + 1, wavPos + 4) = Tag("fmt ")
  /\ LET chunkSize == Uint(SubSeq(wavR, wavPos + 5, wavPos + 8))
         at == wavPos + 8
         fmtData == SubSeq(wavR, at + 1, at + chunkSize)
     IN IF chunkSize < 16
          THEN /\ wavPos' = at
               /\ wavRet' = <<"invalid fmt chunk size">> /\ wavPc' = "done"
               /\ UNCHANGED wavH
          ELSE IF at + chunkSize > Len(wavR)
          THEN /\ wavPos' = Len(wavR)
               /\ wavRet' = <<"EOF">> /\ wavPc' = "done"
               /\ UNCHANGED wavH
          ELSE /\ wavH' = [foundFmt |-> TRUE,
                           AudioFormat |-> Uint(SubSeq(fmtData, 1, 2)),
                           NumChannels |-> Uint(SubSeq(fmtData, 3, 4)),
                           SampleRate |-> Uint(SubSeq(fmtData, 5, 8)),
                           ByteRate |-> Uint(SubSeq(fmtData, 9, 12)),
                           BlockAlign |-> Uint(SubSeq(fmtData, 13, 14)),
                           BitsPerSample |-> Uint(SubSeq(fmtData, 15, 16))]
               /\ wavPos' = IF chunkSize % 2 # 0
                              THEN Min(at + chunkSize + 1, Len(wavR))
                              ELSE at + chunkSize
               /\ UNCHANGED <<wavRet, wavPc>>
  /\ UNCHANGED <<playerVars, envVars, procVars, ghostVars, qsnap, sref,
                 mgrVars, mu, pump, wavR, wavIn, pcmR, pcmPos, leftover, volume,
                 pcmOut, pcmRet, pumpPc, piped>>

\* Mutant of ReadData: a data chunk before any fmt chunk is accepted.
ReadDataUnchecked ==
  /\ wavPc = "chunk" /\ wavPos + 8 <= Len(wavR)
  /\ SubSeq(wavR, wavPos + 1, wavPos + 4) = Tag("data")
  /\ wavPos' = wavPos + 8
  /\ wavRet' = <<"nil", wavH>>
  /\ wavPc' = "done"
  /\ UNCHANGED <<playerVars, envVars, procVars, ghostVars, qsnap, sref,
                 mgrVars, mu, pump, wavR, wavH, wavIn, pcmR, pcmPos, leftover,
                 volume, pcmOut, pcmRet, pumpPc, piped>>

\* ReadWavHeader: the data chunk; the header is returned when a fmt chunk
\* was seen and its format code is PCM or extensible.
ReadData ==
  /\ wavPc = "chunk" /\ wavPos + 8 <= Len(wavR)
  /\ SubSeq(wavR, wavPos + 1, wavPos + 4) = Tag("data")
  /\ wavPos' = wavPos + 8
  /\ wavRet' = IF ~wavH.foundFmt THEN <<"data chunk before fmt chunk">>
               ELSE IF wavH.AudioFormat # 1 /\ wavH.AudioFormat # 65534
               THEN <<"unsupported WAV format">>
               ELSE <<"nil", wavH>>
  /\ wavPc' = "done"
  /\ UNCHANGED <<playerVars, envVars, procVars, ghostVars, qsnap, sref,
                 mgrVars, mu, pump, wavR, wavH, wavIn, pcmR, pcmPos, leftover,
                 volume, pcmOut, pcmRet, pumpPc, piped>>

\* Mutant of SkipChunk: no padding byte is discarded.
SkipChunkNoPad ==
  /\ wavPc = "chunk" /\ wavPos + 8 <= Len(wavR)
  /\ SubSeq(wavR, wavPos + 1, wavPos + 4) \notin {Tag("fmt "), Tag("data")}
  /\ LET chunkSize == Uint(SubSeq(wavR, wavPos + 5, wavPos + 8))
         at == wavPos + 8
     IN IF at + chunkSize > Len(wavR)
          THEN /\ wavPos' = Len(wavR)
               /\ wavRet' = <<"failed to skip chunk">> /\ wavPc' = "done"
          ELSE /\ wavPos' = at + chunkSize
               /\ UNCHANGED <<wavRet, wavPc>>
  /\ UNCHANGED <<playerVars, envVars, procVars, ghostVars, qsnap, sref,
                 mgrVars, mu, pump, wavR, wavH, wavIn, pcmR, pcmPos, leftover,
                 volume, pcmOut, pcmRet, pumpPc, piped>>

\* ReadWavHeader: any other chunk; its declared size and its padding byte,
\* if any, are discarded.
SkipChunk ==
  /\ wavPc = "chunk" /\ wavPos + 8 <= Len(wavR)
  /\ SubSeq(wavR, wavPos + 1, wavPos + 4) \notin {Tag("fmt "), Tag("data")}
  /\ LET chunkSize == Uint(SubSeq(wavR, wavPos + 5, wavPos + 8))
         at == wavPos + 8
     IN IF at + chunkSize > Len(wavR)
          THEN /\ wavPos' = Len(wavR)
               /\ wavRet' = <<"failed to skip chunk">> /\ wavPc' = "done"
          ELSE /\ wavPos' = IF chunkSize % 2 # 0
                              THEN Min(at + chunkSize + 1, Len(wavR))
                              ELSE at + chunkSize
               /\ UNCHANGED <<wavRet, wavPc>>
  /\ UNCHANGED <<playerVars, envVars, procVars, ghostVars, qsnap, sref,
                 mgrVars, mu, pump, wavR, wavH, wavIn, pcmR, pcmPos, leftover,
                 volume, pcmOut, pcmRet, pumpPc, piped>>

NextWav ==
  OpenBody \/ ReadRiff \/ ChunkEOF \/ ReadFmt \/ ReadData \/ SkipChunk

SpecWav == Init /\ [][NextWav]_vars

----------------------------------------------------------------------------

\* PCMVolume and the pump goroutine of streamSong.

\* The loop body of Read: the two bytes of a sample, little-endian, scaled
\* by vol/256, clamped to int16 and converted to int16 as Go converts a
\* float (towards zero).
Scale(b, vol) ==
  LET u      == Uint(b)
      sample == IF u >= 32768 THEN u - 65536 ELSE u
      prod   == sample * vol
      scaled == IF prod > 32767 * 256 THEN 32767
                ELSE IF prod < (-32768) * 256 THEN -32768
                ELSE IF prod >= 0 THEN prod \div 256
                ELSE -((-prod) \div 256)
  IN LE((scaled + 65536) % 65536, 2)

\* Mutant of Scaled: every sample is scaled, by (vol - 1)/256.
ScaledOffByOne(p, vol) ==
  [i \in 1..Len(p) |->
     LET j == 2 * ((i - 1) \div 2) + 1
     IN Scale(SubSeq(p, j, j + 1), vol - 1)[i - j + 1]]

\* Read, "process samples": the n bytes of p, scaled pair by pair unless the
\* factor is within 0.001 of 1.0.
Scaled(p, vol) ==
  IF 1000 * (IF vol >= FullVolume THEN vol - FullVolume ELSE FullVolume - vol)
       > FullVolume
    THEN [i \in 1..Len(p) |->
            LET j == 2 * ((i - 1) \div 2) + 1
            IN Scale(SubSeq(p, j, j + 1), vol)[i - j + 1]]
    ELSE p

\* Read, "save last byte if odd": the new leftover for the bytes p now in the
\* caller's buffer.
Held(p) == IF Len(p) % 2 # 0 THEN <<p[Len(p)]>> ELSE <<>>

\* PCMVolume.Read with a buffer of b bytes (b > 0): the source returns k
\* bytes and the condition e.
Read(b) ==
  IF leftover # <<>> /\ b = 1
    THEN /\ pcmOut' = pcmOut \o leftover
         /\ leftover' = <<>>
         /\ pcmRet' = <<1, "nil">>
         /\ UNCHANGED pcmPos
    ELSE \E k \in 0..Min(b - Len(leftover), Len(pcmR) - pcmPos),
            e \in {"nil", "EOF", "error"} :
           /\ e = "nil" => k >= 1
           /\ e = "EOF" => pcmPos + k = Len(pcmR)
           /\ LET p == leftover \o SubSeq(pcmR, pcmPos + 1, pcmPos + k)
                  n == Len(p) - Len(Held(p))
              IN /\ leftover' = Held(p)
                 /\ pcmOut' = pcmOut \o Scaled(SubSeq(p, 1, n), volume)
                 /\ pcmRet' = <<n, e>>
           /\ pcmPos' = pcmPos + k

\* streamSong: NewPCMVolume over the body, and SetVolume with the Player's
\* volume; the scaler is then read by the pump, or by a caller of its own.
NewPCMVolume ==
  /\ pumpPc = "off"
  /\ \E n \in 0..MaxSrc : \E src \in [1..n -> {0, 1, 128, 255}] : pcmR' = src
  /\ \E v \in {0, 128, 255, FullVolume, MaxDefault} : volume' = PCMSetVolume(v)
  /\ pumpPc' \in {"none", "run"}
  /\ pcmPos' = 0 /\ leftover' = <<>> /\ pcmOut' = <<>> /\ piped' = <<>>
  /\ pcmRet' = <<0, "nil">>
  /\ UNCHANGED <<playerVars, envVars, procVars, ghostVars, qsnap, sref,
                 mgrVars, mu, pump, wavR, wavPos, wavPc, wavH, wavRet, wavIn>>

\* A caller reads the scaler into a buffer of 1, 2 or 3 bytes.
ReadCall ==
  /\ pumpPc = "none"
  /\ \E b \in 1..3 : Read(b)
  /\ UNCHANGED <<playerVars, envVars, procVars, ghostVars, qsnap, sref,
                 mgrVars, mu, pump, wavR, wavPos, wavPc, wavH, wavRet, wavIn,
                 pcmR, volume, pumpPc, piped>>

\* The pump goroutine, one turn of its loop: Read into a buffer of frameSize
\* bytes, pass the n bytes to pipeWriter.Write, leave the loop when the write
\* failed or Read returned an error.
Pump ==
  /\ pumpPc = "run"
  /\ Read(frameSize)
  /\ \E wErr \in BOOLEAN :
       LET n == pcmRet'[1]
       IN /\ piped' = IF n > 0 THEN piped \o LastN(pcmOut', n) ELSE piped
          /\ pumpPc' = IF (n > 0 /\ wErr) \/ pcmRet'[2] # "nil"
                         THEN "done" ELSE "run"
  /\ UNCHANGED <<playerVars, envVars, procVars, ghostVars, qsnap, sref,
                 mgrVars, mu, pump, wavR, wavPos, wavPc, wavH, wavRet, wavIn,
                 pcmR, volume>>

NextScaler == NewPCMVolume \/ ReadCall \/ Pump

SpecScaler == Init /\ [][NextScaler]_vars

----------------------------------------------------------------------------

\* The step by which a Stop call of t returns to its caller.
StopReturns(t) == pc[t] = "stop_final" /\ pc'[t] = "idle"

\* C1: Stop() never returns to its caller before the control loop has
\* exited and the voice transport has been disconnected.
C1_StopWaitsForLoop ==
  [][\A t \in Threads : StopReturns(t) => (LiveLoops' = {} /\ ~connected')]_vars

\* C2: raising the stop signal is idempotent: no Stop call, sequential or
\* concurrent with another Stop, faults by closing stopChan a second time.
C2_StopSignalIdempotent == panicked # "close of closed stopChan"

\* The StreamingSessions in use: the loops between EncodeMem and the end of
\* cleanupSession.
ActiveSessions ==
  {l \in Loops : lpc[l] \in {"speak", "init_read", "init_set", "mkstream",
                              "wait", "vol_read", "vol_set", "cleanup"}}

\* C3: at most one control-loop instance and at most one StreamingSession
\* are active per Player in every reachable state.
C3_SingleControlLoop ==
  Cardinality(LiveLoops) <= 1 /\ Cardinality(ActiveSessions) <= 1

\* The step by which the select of streamSong in loop l takes the skip case.
EndedBySkip(l) == lpc[l] = "wait" /\ lwhy'[l] = "skip"

\* C4: a Skip() ends exactly the song that is active when it is called: a
\* skip signal that ends a song was raised while that song was the one in
\* progress, never before it was dequeued.
C4_SkipEndsCurrentSongOnly ==
  [][\A l \in Loops : EndedBySkip(l) => lserial[l] \in skipFor]_vars

\* C5: without PlayPrevious and Stop, the songs dequeued are a prefix of the
\* songs enqueued, in enqueue order, and a dequeue on an empty Queue yields
\* none and leaves the Queue empty.
C5_QueueFIFO ==
  /\ [](IsPrefix(deqLog, enqLog))
  /\ [][\A l \in Loops :
          (lpc[l] = "dequeue" /\ lpc'[l] # "dequeue" /\ Queue = <<>>)
             => (lsong'[l] = None /\ Queue' = <<>> /\ deqLog' = deqLog)]_vars

\* C5 witness: A and B were dequeued in that order and a third dequeue found
\* the Queue empty.
C5_Witness == deqLog = <<A, B>> /\ \E l \in Loops : lpc[l] = "exh_flags"

\* Start has returned success and the control loop it launched has not run.
StartedNotYetRun == StartReturned /\ deqLog = <<>> /\ lpc[1] = "top"

\* C6: after Enqueue(A), Enqueue(B) and a successful Start on an idle
\* Player, Start returns success before the control loop has run, and from
\* there the Player reaches NowPlaying = A with GetQueue() = [B].
C6_StartPlaysHead ==
  /\ <>StartedNotYetRun
  /\ StartedNotYetRun ~> (NowPlaying = A /\ Queue = <<B>>)

\* C6 witness: the song A is playing with exactly B queued.
C6_Witness ==
  /\ NowPlaying = A /\ Queue = <<B>> /\ StartReturned
  /\ \E l \in Loops : lpc[l] = "wait" /\ lsong[l] = A

\* A step of a Start call of t (its first critical section when it goes on
\* to join, or any later step).
StartStep(t) ==
  \/ pc[t] = "idle" /\ pc'[t] = "start_join"
  \/ pc[t] \in StartPCs /\ pc'[t] # pc[t]

\* The step by which a Start call of t returns the join failure.
StartFails(t) == pc[t] = "start_join" /\ pc'[t] = "idle"

\* C7: when the voice join fails, Start reports the failure, IsPlaying is
\* false again, no control loop is launched and the transport is not joined,
\* and no step of the call changes Queue, History or NowPlaying.
C7_FailedStartLeavesIdle ==
  [][\A t \in Threads :
       /\ StartFails(t) =>
            (ret'[t] = "error" /\ ~IsPlaying' /\ lpc' = lpc /\ connected' = connected
             /\ VoiceConn' = VoiceConn)
       /\ StartStep(t) => UNCHANGED <<Queue, History, NowPlaying>>]_vars

\* C7 witness: a Start has failed on a Player with a queued song and the
\* Player is idle.
C7_Witness ==
  \E t \in Threads :
    /\ pc[t] = "idle" /\ ret[t] = "error"
    /\ ~IsPlaying /\ LiveLoops = {} /\ Queue = <<A>> /\ ~connected

\* The range of a sequence.
Range(s) == {s[i] : i \in 1..Len(s)}

\* C8: when Stop() returns, no Enqueue or Start having run during the call,
\* the Queue is empty, IsPlaying is false, NowPlaying is none, no session is
\* referenced, and the UI handle recorded when Stop was called has received
\* the "stopped" update.
C8_StopPostcondition ==
  [][\A t \in Threads :
       (StopReturns(t) /\ stopQuiet[t]) =>
          /\ Queue' = <<>> /\ ~IsPlaying' /\ NowPlaying' = None
          /\ encoding' = None /\ stream' = None
          /\ stopMsg[t] # None => <<stopMsg[t], "stopped">> \in Range(uiEdits')]_vars

\* The critical section of a PlayPrevious call of t that found History
\* non-empty.
PreviousPops(t) == pc[t] = "idle" /\ pc'[t] = "prev_skip"

\* C9: PlayPrevious() with History tail H, NowPlaying C and Queue Q removes H
\* from History and makes the Queue [H, C] \o Q ([H] \o Q when NowPlaying is
\* none), then raises the skip signal, and the next song to become
\* NowPlaying is H.
C9_PlayPreviousPlaysPrevious ==
  [][/\ \A t \in Threads :
          /\ PreviousPops(t) =>
               /\ History' = Front(History)
               /\ Queue' = <<History[Len(History)]>>
                             \o (IF NowPlaying # None THEN <<NowPlaying>> ELSE <<>>)
                             \o Queue
          /\ (pc[t] = "prev_skip" /\ pc'[t] = "idle") => skipChan' = "closed"
     /\ \A l \in Loops :
          (lpc[l] = "set_np" /\ lpc'[l] = "fetch" /\ prevPending # None)
             => NowPlaying' = prevPending]_vars

\* C10: PlayPrevious() on an empty History returns at once: it raises no
\* skip signal and leaves Queue, History, NowPlaying and the playback of the
\* current song unchanged.
C10_PlayPreviousEmptyHistory ==
  [][\A t \in Threads :
       (pc[t] = "idle" /\ nOps' # nOps /\ lastOp' = "PlayPrevious" /\ History = <<>>)
          => /\ pc'[t] = "idle"
             /\ UNCHANGED <<Queue, History, NowPlaying, skipChan, lpc, lwhy>>]_vars

\* C10 witness: PlayPrevious has returned on an empty History while a song
\* is playing, the skip signal not raised.
C10_Witness ==
  /\ lastOp = "PlayPrevious" /\ History = <<>> /\ skipChan = "open"
  /\ \A t \in Threads : pc[t] = "idle"
  /\ \E l \in Loops : lpc[l] = "wait" /\ NowPlaying = lsong[l]

\* C11: History never holds more than HistoryLimit songs, and after k song
\* completions without PlayPrevious it is the most recent min(k, HistoryLimit)
\* completed songs in play order.
C11_HistoryBounded ==
  /\ Len(History) <= HistoryLimit
  /\ History = LastN(played, Min(Len(played), HistoryLimit))

\* C11 witness: the Player had played HistoryLimit songs, one more was
\* enqueued and completed, and the oldest song has left the History.
C11_Witness ==
  /\ Len(played) = HistoryLimit + 1 /\ nEnq = HistoryLimit + 1 /\ nOps = 1
  /\ Len(History) = HistoryLimit
  /\ History[1] = Song(2) /\ History[HistoryLimit] = Song(HistoryLimit + 1)

\* C12: SetVolume(level) stores min(max(level, 0), 256): 256 for a level above
\* 256, 0 for a negative level, the level itself otherwise.
C12_SetVolumeClamps ==
  [][\A t \in Threads :
       (pc[t] = "idle" /\ pc'[t] = "vol_notify") =>
         /\ lastArg' > FullVolume => Volume' = FullVolume
         /\ lastArg' < 0 => Volume' = 0
         /\ lastArg' \in 0..FullVolume => Volume' = lastArg']_vars

\* C12 witness: a SetVolume with a level above 256 has returned on a Player
\* whose stored volume is 256.
C12_Witness ==
  /\ lastOp = "SetVolume" /\ lastArg > FullVolume /\ Volume = FullVolume
  /\ \A t \in Threads : pc[t] = "idle"

\* C13: the Player's Volume is in 0..256 in every reachable state, the state
\* right after construction included.
C13_VolumeInRange == Volume \in 0..FullVolume

\* The loops whose session is running: from EncodeMem to the select taking a
\* stop, skip or encoder event.
RunningSessions ==
  {l \in Loops : lpc[l] \in {"speak", "init_read", "init_set", "mkstream",
                              "wait", "vol_read", "vol_set"}}

\* A step of loop l in the volume case of the select: the notification is
\* taken, the volume read, or the scaler set.
VolumeEvent(l) ==
  \/ lpc[l] = "wait" /\ lpc'[l] = "vol_read"
  \/ lpc[l] = "vol_read" /\ lpc'[l] = "vol_set"
  \/ lpc[l] = "vol_set" /\ lpc'[l] = "wait"

\* C14: while a session runs, the scaler's factor eventually equals the
\* latest stored Volume / 256 whatever SetVolume calls were made, and taking
\* the volume event leaves the song and its session in place.
C14_VolumeReachesScaler ==
  /\ \A l \in Loops :
       (l \in RunningSessions /\ pcmVolume[l] # Volume)
          ~> (l \notin RunningSessions \/ pcmVolume[l] = Volume)
  /\ [][\A l \in Loops :
          VolumeEvent(l)
            => /\ l \in RunningSessions'
               /\ UNCHANGED <<NowPlaying, Queue, History, encoding, stream,
                              speaking, lsong, lwhy>>]_vars

\* C14 witness: the control loop waits with a factor that is not the stored
\* volume, a notification is pending, and a second SetVolume call has stored
\* its level and is about to post a notification that will be dropped.
C14_Witness ==
  /\ \E l \in Loops : lpc[l] = "wait" /\ pcmVolume[l] # Volume
  /\ volumeChangeChan = 1
  /\ \E t \in Threads : pc[t] = "vol_notify"

\* C15: GetQueue() returns the Queue's contents as a snapshot: no step
\* changes both the Player's Queue and a sequence already returned, so an
\* Enqueue, dequeue, PlayPrevious or Stop leaves returned sequences alone and
\* a caller's write to its sequence leaves the Queue alone.
C15_GetQueueSnapshot ==
  [][/\ Queue' # Queue => qsnap' = qsnap
     /\ qsnap' # qsnap => Queue' = Queue
     /\ (nOps' # nOps /\ lastOp' = "GetQueue")
          => \E t \in Threads :
                /\ qsnap'[t].elems = Queue /\ qsnap'[t].buf # "none"
                /\ \A u \in Threads \ {t} : qsnap'[u] = qsnap[u]]_vars

\* C15 witness: a caller holds a returned sequence of two songs, has
\* overwritten its first element, and the Player's Queue has since been
\* changed by the control loop's dequeue; the other element is as returned.
C15_Witness ==
  \E t \in Threads :
    /\ qsnap[t].elems = <<None, Song(3)>>
    /\ Queue = <<Song(3)>> /\ deqLog = <<Song(1), Song(2)>>

\* A step of a Pause or Resume call of t.
PauseStep(t) ==
  \/ pc[t] = "idle" /\ pc'[t] \in {"pause_read", "resume_read"}
  \/ pc[t] \in {"pause_read", "pause_set", "resume_read", "resume_set"}
       /\ pc'[t] # pc[t]

\* C16: Pause() sets IsPaused to true and Resume() sets it to false; no step
\* of either ends the current song, tears the session down, raises a stop or
\* skip signal, or changes Queue, History, NowPlaying or Volume.
C16_PauseResumeFrame ==
  [][\A t \in Threads :
       /\ (pc[t] = "idle" /\ pc'[t] = "pause_read") => IsPaused'
       /\ (pc[t] = "idle" /\ pc'[t] = "resume_read") => ~IsPaused'
       /\ PauseStep(t) =>
            UNCHANGED <<Queue, History, NowPlaying, Volume, lpc, lsong, lwhy,
                        encoding, stream, stopChan, skipChan, done, IsPlaying,
                        connected, speaking>>]_vars

\* C16 witness: Pause has returned while a song is playing: the Player is
\* paused and the song's session is still there.
C16_Witness ==
  /\ lastOp = "Pause" /\ IsPaused /\ \A t \in Threads : pc[t] = "idle"
  /\ \E l \in Loops :
       /\ lpc[l] = "wait" /\ stream = l /\ encoding = l
       /\ NowPlaying = lsong[l]

\* C17: the registry holds at most one Player per guild: every
\* GetOrCreatePlayer(g) since the last Remove(g) has returned the same Player,
\* the one registered for g, and GetPlayer returns the registry entry (none
\* for an unregistered guild) and creates or registers nothing.
C17_OnePlayerPerGuild ==
  /\ [](\A g \in Guilds : \A i \in 1..Len(handed[g]) : handed[g][i] = players[g])
  /\ [][(nOps' # nOps /\ lastOp' = "GetPlayer")
          => /\ UNCHANGED <<players, nPlayers>>
             /\ \E t \in Threads : mret'[t] = players[lastArg']]_vars

\* C17 witness: while a Remove of another guild is blocked in Stop,
\* GetOrCreatePlayer was called twice for a guild and returned the same
\* Player, the one registered.
C17_Witness ==
  \E g \in Guilds :
    /\ Len(handed[g]) = 2 /\ handed[g][1] = handed[g][2]
    /\ players[g] = handed[g][1]
    /\ \E t \in Threads : pc[t] = "rm_stop" /\ mloc[t][1] # g

\* C18 as stated: while a Remove(g) is blocked inside Stop, the registry
\* lock is not held by it and GetPlayer(g) returns none, that is, the guild
\* has no registry entry.
C18_NoEntryDuringStop ==
  \A t \in Threads :
    pc[t] = "rm_stop" => (mmu # t /\ players[mloc[t][1]] = None)

\* C18: Remove(g) detaches the Player before calling its Stop() and does not
\* hold the registry lock while Stop() blocks: while a Remove is blocked
\* inside Stop the lock is free for GetPlayer, GetOrCreatePlayer and Remove of
\* any guild, and no guild's registry entry is the Player being stopped (the
\* guild's entry is none or a Player registered since).
C18_RemoveDetachesFirst ==
  \A t \in Threads :
    pc[t] = "rm_stop" =>
      (mmu = "free" /\ \A g \in Guilds : players[g] # mloc[t][2])

\* C18 witness: while a Remove of a guild is blocked inside Stop, another
\* caller's GetPlayer for that guild has completed and returned none.
C18_Witness ==
  \E t, u \in Threads :
    /\ pc[t] = "rm_stop" /\ pc[u] = "idle" /\ mloc[t][2] # None
    /\ lastOp = "GetPlayer" /\ lastArg = mloc[t][1] /\ mret[u] = None
    /\ handed[mloc[t][1]] = <<>>

\* C19: Shutdown() detaches every registered Player (the registry is empty
\* once Shutdown returns) and has issued a concurrent Stop() for each of
\* them.
C19_ShutdownEmptiesRegistry ==
  [][(nOps' # nOps /\ lastOp' = "Shutdown")
       => /\ \A g \in Guilds : players'[g] = None
          /\ \A g \in Guilds : players[g] # None => gstop'[players[g]] = "spawned"]_vars

\* C20: no lock is held across a blocking wait: a caller waiting for the
\* control loop to exit, for the voice join or disconnect, or for a UI update
\* to return, and a control loop waiting for an event, for the stream fetch,
\* for the disconnect or for a UI update to return, holds neither p.mu nor the
\* registry lock.
C20_NoLockAcrossWait ==
  /\ \A t \in Threads :
       pc[t] \in {"start_join", "stop_wait", "stop_disc", "stop_edit", "rm_stop"}
         => (mu # t /\ mmu # t)
  /\ \A l \in Loops :
       lpc[l] \in {"fetch", "wait", "exh_disc", "exh_edit"} => mu # "loop"

\* C21: a terminal UI update is written only by Stop's last critical section
\* or by the control loop's queue-exhausted branch, and no message receives a
\* second terminal update ("stopped" or "queue ended") after its first.
C21_OneTerminalUpdate ==
  [][uiEdits' # uiEdits =>
       /\ \/ \E t \in Threads : pc[t] = "stop_edit" /\ pc'[t] = "idle"
          \/ \E l \in Loops : lpc[l] = "exh_edit" /\ lpc'[l] = "ret"
       /\ \A i, j \in 1..Len(uiEdits') :
            uiEdits'[i][1] = uiEdits'[j][1] => i = j]_vars

\* C21 witness: the control loop has written "queue ended" to the message and
\* a Stop call that found the message recorded is about to enter its last
\* critical section.
C21_Witness ==
  /\ Len(uiEdits) = 1 /\ uiEdits[1][2] = "queue ended"
  /\ \E t \in Threads : pc[t] = "stop_final" /\ stopMsg[t] = uiEdits[1][1]

\* C22: for a complete stream with the RIFF and WAVE words whose chunks are a
\* fmt chunk of at least 16 bytes with format code 1 or 0xFFFE, then chunks
\* with other tags, then a data chunk, ReadWavHeader returns the fields of
\* the fmt chunk and has consumed the bytes up to and including the 8-byte
\* header of the data chunk: the next byte of the reader is the first sample.
C22_HeaderOfFmtChunk ==
  LET cs == wavIn.chunks
      d  == CHOOSE i \in 1..Len(cs) :
              cs[i].tag = "data" /\ \A j \in 1..(i - 1) : cs[j].tag # "data"
  IN (/\ wavPc = "done"
      /\ wavIn.riff = "RIFF" /\ wavIn.wave = "WAVE" /\ wavIn.cut = 0
      /\ \E i \in 1..Len(cs) : cs[i].tag = "data"
      /\ cs[1].tag = "fmt " /\ cs[1].size >= 16 /\ cs[1].code \in {1, 65534}
      /\ \A j \in 2..(d - 1) : cs[j].tag = "LIST")
     => /\ wavRet = <<"nil", [foundFmt |-> TRUE, AudioFormat |-> cs[1].code,
                              NumChannels |-> cs[1].ch, SampleRate |-> 44100,
                              ByteRate |-> 176400, BlockAlign |-> 4,
                              BitsPerSample |-> 16]>>
        /\ wavPos = 12 + Len(Container(SubSeq(cs, 1, d - 1))) + 8
        /\ wavR[wavPos + 1] = 11

\* C22 witness: the header was returned for a stream made of an extensible
\* fmt chunk of odd size, a LIST chunk of odd size and the data chunk.
C22_Witness ==
  /\ wavPc = "done" /\ wavRet[1] = "nil"
  /\ wavIn.cut = 0 /\ Len(wavIn.chunks) = 3
  /\ wavIn.chunks[1].size = 17
  /\ wavIn.chunks[2].tag = "LIST" /\ wavIn.chunks[2].size = 1
  /\ wavIn.chunks[3].tag = "data"

\* C23: ReadWavHeader returns an error and no header when the first 12 bytes
\* do not carry "RIFF" at offset 0 or "WAVE" at offset 8, and when the header
\* of a data chunk is read before any fmt chunk.
C23_RejectsBadMagicAndEarlyData ==
  LET cs == wavIn.chunks
      d  == CHOOSE i \in 1..Len(cs) :
              cs[i].tag = "data" /\ \A j \in 1..(i - 1) : cs[j].tag # "data"
  IN wavPc = "done" =>
       /\ (/\ Len(wavR) >= 12
           /\ \/ SubSeq(wavR, 1, 4) # Tag("RIFF")
              \/ SubSeq(wavR, 9, 12) # Tag("WAVE"))
            => wavRet \in {<<"missing RIFF">>, <<"missing WAVE">>}
       /\ (/\ wavIn.riff = "RIFF" /\ wavIn.wave = "WAVE"
           /\ \E i \in 1..Len(cs) : cs[i].tag = "data"
           /\ \A j \in 1..(d - 1) : cs[j].tag = "LIST"
           /\ Len(wavR) >= 12 + Len(Container(SubSeq(cs, 1, d - 1))) + 8)
            => wavRet = <<"data chunk before fmt chunk">>

\* C23 witness: a data chunk was met after a LIST chunk and before any fmt
\* chunk, and the error was returned.
C23_Witness ==
  /\ wavPc = "done" /\ wavRet = <<"data chunk before fmt chunk">>
  /\ Len(wavIn.chunks) >= 2 /\ wavIn.chunks[1].tag = "LIST"

\* C24: ReadWavHeader returns an error when the fmt chunk it reads declares
\* fewer than 16 bytes, when the format code held at the data chunk is
\* neither 1 nor 0xFFFE, and when the stream ends before the header of a data
\* chunk has been read; and it terminates on every finite stream: while it
\* runs a step is possible, and every step either returns or consumes bytes
\* of the stream.
C24_ErrorsAndTermination ==
  /\ [](wavPc = "done" =>
          /\ wavRet[1] = "nil" <=> Len(wavRet) = 2
          /\ (\A i \in 1..Len(wavIn.chunks) :
                wavIn.chunks[i].tag = "data" =>
                  Len(wavR) < 12 + Len(Container(SubSeq(wavIn.chunks, 1, i - 1)))
                                 + 8)
               => Len(wavRet) = 1)
  /\ [](wavPc \in {"riff", "chunk"} =>
          wavPos <= Len(wavR) /\ ENABLED <<NextWav>>_vars)
  /\ [][LET header == wavPc = "chunk" /\ wavPos + 8 <= Len(wavR)
            chunkID == SubSeq(wavR, wavPos + 1, wavPos + 4)
            chunkSize == Uint(SubSeq(wavR, wavPos + 5, wavPos + 8))
        IN /\ (header /\ chunkID = Tag("fmt ") /\ chunkSize < 16)
                => wavRet' = <<"invalid fmt chunk size">>
           /\ (header /\ chunkID = Tag("data") /\ wavH.foundFmt
                 /\ wavH.AudioFormat \notin {1, 65534})
                => wavRet' = <<"unsupported WAV format">>
           /\ wavPc \in {"riff", "chunk"}
                => \/ wavPc' = "done" /\ Len(wavRet') >= 1
                   \/ wavPos' > wavPos]_vars

\* C24 witness: a PCM fmt chunk was followed by a fmt chunk with format code
\* 3 and the data chunk, and the format error was returned.
C24_Witness ==
  /\ wavPc = "done" /\ wavRet = <<"unsupported WAV format">>
  /\ Len(wavIn.chunks) = 3
  /\ wavIn.chunks[1].code = 1 /\ wavIn.chunks[1].size = 16
  /\ wavIn.chunks[2].code = 3

\* C25: a chunk whose tag is neither "fmt " nor "data" and whose declared
\* size is s is skipped by discarding s bytes, and one more when s is odd,
\* and the next chunk header is read from there; the same padding byte is
\* discarded after a fmt chunk of odd size; after the header of the data
\* chunk nothing is discarded, whatever its declared size.
C25_SkipAndPadding ==
  [][LET chunkID == SubSeq(wavR, wavPos + 1, wavPos + 4)
         s == Uint(SubSeq(wavR, wavPos + 5, wavPos + 8))
         next == wavPos + 8 + s + (s % 2)
     IN (wavPc = "chunk" /\ wavPos + 8 <= Len(wavR)) =>
          /\ (chunkID \notin {Tag("fmt "), Tag("data")} /\ next <= Len(wavR))
               => wavPos' = next /\ wavPc' = "chunk"
          /\ (chunkID = Tag("fmt ") /\ s >= 16 /\ next <= Len(wavR))
               => wavPos' = next /\ wavPc' = "chunk"
          /\ chunkID = Tag("data") => wavPos' = wavPos + 8]_vars

\* C25 witness: a fmt chunk of 17 bytes and a LIST chunk of 1 byte have been
\* passed, each with its padding byte, and the header of the data chunk is
\* next.
C25_Witness ==
  /\ wavPc = "chunk" /\ wavPos = 12 + (8 + 17 + 1) + (8 + 1 + 1)
  /\ wavPos + 8 <= Len(wavR)
  /\ SubSeq(wavR, wavPos + 1, wavPos + 4) = Tag("data")
  /\ Uint(SubSeq(wavR, wavPos + 5, wavPos + 8)) = 1

\* C26: with a factor v/256, v in 0..256, every sample the scaler has
\* delivered is clamp(round(s * v/256), -32768, 32767) for the source sample
\* s at the same place of the stream: an integer nearest to s * v/256.
C26_ScaledSampleIsRounded ==
  volume \in 0..FullVolume =>
    \A i \in 1..(Len(pcmOut) \div 2) :
      LET us == Uint(SubSeq(pcmR, 2 * i - 1, 2 * i))
          uo == Uint(SubSeq(pcmOut, 2 * i - 1, 2 * i))
          s  == IF us >= 32768 THEN us - 65536 ELSE us
          o  == IF uo >= 32768 THEN uo - 65536 ELSE uo
      IN /\ 256 * o - s * volume <= 128
         /\ s * volume - 256 * o <= 128

\* C27: with factor 1.0 (Volume 256) the bytes the scaler has delivered, in
\* the order delivered, are the bytes of its source from the first on, and
\* the bytes read from the source are those delivered plus the byte held
\* back, whatever the sizes of the source reads and of the buffers.
C27_UnityIsIdentity ==
  volume = FullVolume =>
    /\ pcmOut = SubSeq(pcmR, 1, Len(pcmOut))
    /\ Len(pcmOut) + Len(leftover) = pcmPos

\* C27 witness: at factor 1.0 the source has returned three bytes; two were
\* delivered unchanged and the third is held back.
C27_Witness ==
  /\ volume = FullVolume /\ pumpPc = "none"
  /\ pcmR = <<1, 128, 255, 1>> /\ pcmPos = 3
  /\ pcmOut = <<1, 128>> /\ leftover = <<255>>

\* C28: for any sizes of source reads and of buffers, no call delivers an odd
\* number of bytes, the bytes delivered are the source's bytes in order,
\* scaled pair by pair on the source's sample boundaries, none twice and none
\* missing, and the byte held back is the source's next byte: never scaled on
\* its own, delivered first in a later call, after which its partner follows.
C28_NoByteLostOrMisaligned ==
  /\ pcmRet[1] % 2 = 0
  /\ Len(pcmOut) % 2 = 0
       => pcmOut = Scaled(SubSeq(pcmR, 1, Len(pcmOut)), volume)
  /\ Len(pcmOut) + Len(leftover) = pcmPos
  /\ leftover # <<>> => leftover = <<pcmR[pcmPos]>>

\* C29: when a read of the source returns bytes together with EOF or an
\* error, the same Read call of the scaler returns that condition and leaves
\* nothing read undelivered, and the pump passes the bytes of that call to
\* the encoder's input before it leaves its loop.
C29_EndKeepsData ==
  [][(pcmPos' > pcmPos /\ pcmRet'[2] # "nil") =>
       /\ leftover' = <<>> /\ Len(pcmOut') = pcmPos'
       /\ pumpPc = "run" =>
            /\ piped' = piped \o LastN(pcmOut', pcmRet'[1])
            /\ piped' = pcmOut' /\ pumpPc' = "done"]_vars

\* C30: when streamSong returns, by whichever path, the transport is marked
\* as not sending, the song's encoder session, if one was made, has been
\* released, and p.encoding and p.stream are nil.
C30_TeardownOnReturn ==
  [][\A l \in Loops :
       (lpc[l] = "deferred" /\ lpc'[l] = "hist") =>
         /\ ~speaking'
         /\ l \notin ActiveSessions'
         /\ encoding' = None /\ stream' = None]_vars

\* C30 witness: streamSong is about to return after its select took the stop
\* case: the session has been cleaned up, the transport is not sending and
\* no session is referenced.
C30_Witness ==
  \E l \in Loops :
    /\ lpc[l] = "deferred" /\ lwhy[l] = "stop" /\ lvc[l] = "vc"
    /\ ~speaking /\ encoding = None /\ stream = None

\* C31: a song whose fetch, header parse or encoder start fails is abandoned:
\* the failing step changes nothing a caller sees (no return value, no
\* caller's position, no fault) and does not put the song back; no song is
\* dequeued twice; and from the failure the control loop goes on to play the
\* head of the Queue, or with an empty Queue sets IsPlaying false and exits.
C31_FailedSongAbandoned ==
  /\ [][\A l \in Loops :
          (lpc[l] \in {"fetch", "header", "encode"} /\ lpc'[l] = "deferred") =>
            /\ UNCHANGED <<pc, ret, Queue, deqLog, panicked>>
            /\ encoding' = None /\ stream' = None]_vars
  /\ [](\A i, j \in 1..Len(deqLog) : i # j => deqLog[i] # deqLog[j])
  /\ \A l \in Loops : \A s \in {A, B} :
       (lpc[l] = "deferred" /\ lwhy[l] = "none" /\ Queue # <<>> /\ Head(Queue) = s)
         ~> (lpc[l] = "fetch" /\ NowPlaying = s)
  /\ \A l \in Loops :
       (lpc[l] = "deferred" /\ lwhy[l] = "none" /\ Queue = <<>>)
         ~> (lpc[l] = "off" /\ ~IsPlaying /\ NowPlaying = None)

\* C31 witness: Start has returned success, the header of A could not be
\* parsed and streamSong is returning with B still queued.
C31_Witness ==
  \E l \in Loops :
    /\ lpc[l] = "deferred" /\ lwhy[l] = "none" /\ lsong[l] = A
    /\ pcmVolume[l] = 0 /\ lvc[l] = "vc" /\ Queue = <<B>> /\ NowPlaying = A
    /\ StartReturned /\ panicked = "no"

\* C32: with no stop signal and every streamSong returning, the control loop
\* makes progress through the Queue: a song that is in the Queue while the
\* loop is in its for loop (not yet past the dequeue that finds the Queue
\* empty) eventually becomes NowPlaying, the k-th song played is the k-th
\* song enqueued, and a loop that has started eventually reaches the
\* queue-exhaustion exit.
C32_LoopMakesProgress ==
  /\ \A l \in Loops : \A s \in 1..MaxOps :
       (lpc[l] \in {"top", "dequeue"} \cup SongPCs /\ s \in Range(Queue))
         ~> (NowPlaying = s /\ lsong[l] = s /\ lpc[l] = "fetch")
  /\ [](\A l \in Loops :
          lpc[l] \in SongPCs \ {"set_np"} =>
            NowPlaying = lsong[l] /\ lsong[l] = enqLog[Len(deqLog)])
  /\ \A l \in Loops : (lpc[l] = "top") ~> (lpc[l] = "exh_flags")

\* C32 witness: B was enqueued after Start; the loop has played A and B and
\* its third dequeue has found the Queue empty.
C32_Witness ==
  \E l \in Loops :
    /\ lpc[l] = "exh_flags" /\ played = <<A, B>> /\ deqLog = <<A, B>>
    /\ nOps = 3 /\ lastOp = "Enqueue" /\ Queue = <<>> /\ IsPlaying

\* C33: every call to Stop() eventually returns, whatever the state of the
\* Player when it is called (unless the process has died of a fault before).
C33_StopAlwaysReturns ==
  \A t \in Threads : (pc[t] \in StopPCs) ~> (pc[t] = "idle" \/ ~Alive)

\* C34: a Player whose control loop has exited on queue exhaustion can be
\* started again, and when the control loop of the second start exits the
\* loop-exit signal p.done is not closed a second time.
C34_RestartDoesNotFault == panicked # "close of closed done"

\* C35: no enqueued song is stranded: a song the play command appended while
\* IsPlaying was set is never left in the Queue of a Player whose control
\* loop has exited with no Start in progress.
C35_NoStrandedSong ==
  ~(Queue # <<>> /\ LiveLoops = {} /\ \A t \in Threads : pc[t] = "idle")

\* C36: a control loop that finds the Queue empty sets IsPlaying false and
\* NowPlaying none, disconnects the voice transport, writes the "queue
\* ended" update to the recorded UI handle and forgets the handle (writes
\* nothing when none is recorded), and exits without dequeuing again.
C36_QueueExhaustedExit ==
  /\ [](\A l \in Loops :
          /\ lpc[l] \in {"exh_vc", "exh_disc", "exh_vcnil", "exh_ui", "ret"} =>
               ~IsPlaying /\ NowPlaying = None /\ lsong[l] = None
          /\ lpc[l] \in {"exh_ui", "ret"} => ~connected /\ VoiceConn = "nil")
  /\ [][\A l \in Loops :
          /\ (lpc[l] = "exh_ui" /\ lpc'[l] # "exh_ui") =>
               /\ lpc'[l] = "ret" /\ LastMsgID' = None
               /\ uiEdits' = IF LastMsgID # None
                               THEN Append(uiEdits, <<LastMsgID, "queue ended">>)
                               ELSE uiEdits
          /\ (lpc[l] \in {"exh_flags", "exh_vc", "exh_disc", "exh_vcnil",
                          "exh_ui", "ret"}) =>
               /\ deqLog' = deqLog /\ panicked' = "no"
               /\ lpc'[l] \in {"exh_flags", "exh_vc", "exh_disc", "exh_vcnil",
                               "exh_ui", "ret", "off"}]_vars

\* C36 witness: A and B were played; the loop found the Queue empty, wrote
\* "queue ended" to the recorded message, forgot it and is about to return.
C36_Witness ==
  \E l \in Loops :
    /\ lpc[l] = "ret" /\ played = <<A, B>> /\ Queue = <<>>
    /\ uiEdits = <<<<1, "queue ended">>>> /\ LastMsgID = None
    /\ ~IsPlaying /\ NowPlaying = None /\ ~connected /\ done = "open"

\* C40: whenever the Player has a stream and no Pause or Resume call is in
\* progress, the stream's paused state equals IsPaused, also after
\* concurrent Pause and Resume calls and for a stream made while IsPaused
\* is true.
C40_PausedMatchesFlag ==
  (stream # None /\ \A t \in Threads : pc[t] = "idle")
    => spaused[stream] = IsPaused

\* C37: for each song the scaler's factor is set to the Player's Volume
\* before the pump reads through it: the pump never writes to the input of
\* the song's running encoder a chunk that was scaled by the factor
\* NewPCMVolume gave the scaler while the Player's Volume was another.
C37_ScalerSeededBeforePump ==
  \A l \in Loops :
    (/\ lpc[l] \in {"speak", "init_read", "init_set", "mkstream", "wait",
                    "vol_read", "vol_set"}
     /\ lserial[l] \in DOMAIN pump)
    => ~(pump[lserial[l]].at = "write" /\ pump[lserial[l]].def)

\* C38: once the single-song subroutine of a song has returned, by any path
\* (an encoder start failure included), the song's pump goroutine eventually
\* leaves its loop and closes its write side; it does not stay blocked in a
\* write nobody reads.
C38_PumpTerminates ==
  \A s \in 1..(MaxPumpOps + 1) :
    (s \in DOMAIN pump /\ \A l \in Loops : lserial[l] # s)
      ~> (IF s \in DOMAIN pump
            THEN pump[s].at = "done" /\ pump[s].pipe = "closed"
            ELSE FALSE)

\* C39: the pump provides backpressure: while it is about to read, nothing
\* it has read is waiting for the encoder, and what it holds in a write is
\* one chunk of at most frameSize bytes.
C39_PumpBackpressure ==
  \A s \in DOMAIN pump :
    /\ pump[s].out <= frameSize
    /\ pump[s].at \in {"new", "read"} => pump[s].out = 0

\* A full chunk is held in the pump's write while the song is streaming.
C39_Witness ==
  \E l \in Loops :
    /\ lpc[l] = "wait" /\ lserial[l] \in DOMAIN pump
    /\ pump[lserial[l]].at = "write" /\ pump[lserial[l]].out = frameSize
    /\ pump[lserial[l]].pipe = "open"

====
